---- MODULE Spec2Model ----
(***************************************************************************)
(* LIS visualizer: trace engine, step navigator, hover manager, playback   *)
(* controller and the orchestration layer that composes them.              *)
(*                                                                         *)
(* Arrays are TLA+ sequences holding the program's 0-based indices; At and *)
(* SetAt translate a 0-based index.  An optional value (T | undefined) is  *)
(* the empty sequence for undefined and <<x>> for a value x.               *)
(***************************************************************************)
EXTENDS Integers, Sequences, FiniteSets, TLC

VARIABLES
    input,                  \* state.input
    trace,                  \* `let trace` of the view
    navigator,              \* `let navigator`: the trace it closes over and currentStepIndex
    isPlaying,              \* state.isPlaying
    speed,                  \* state.speed
    playTimer,              \* playback controller's timer handle, 0 = undefined
    timers,                 \* host timer table: live interval timers [id, interval]
    hoveredChainIndexes,    \* state.hoveredChainIndexes
    hoveredChainInfo,       \* state.hoveredChainInfo, optional {chainIndex}
    isSequenceHovered,      \* state.isSequenceHovered
    isPredecessorsHovered,  \* state.isPredecessorsHovered
    navigatorVersion,       \* state.navigatorVersion
    mounted,                \* the view has not been unmounted
    calls,                  \* history: the calls made by the last handler, in order
    returned,               \* history: what the last navigator call returned
    hoverAt,                \* history: chain position of the last chain hover, optional
    nexts,                  \* history: next() calls made since reset() with nothing else between, -1 if none
    ticks,                  \* history: [from, count] of timer ticks since start()
    args,                   \* history: the argument of the last handler called, optional
    inputText,              \* input editor's inputText, a sequence of characters
    error,                  \* input editor's error, optional
    pc                      \* which phase the run is in

vars == <<input, trace, navigator, isPlaying, speed, playTimer, timers,
          hoveredChainIndexes, hoveredChainInfo, isSequenceHovered,
          isPredecessorsHovered, navigatorVersion, mounted, calls, returned,
          hoverAt, nexts, ticks, args, inputText, error, pc>>

----------------------------------------------------------------------------
(* Bounds *)

TraceMaxLen == 5    \* longest input given to the trace engine alone
TraceMaxVal == 4    \* largest value in such an input
AppMaxLen == 1      \* longest text input typed into the running view
AppMaxVal == 0      \* largest value typed into the running view
NavMaxLen == 3      \* longest input under a navigator driven directly
NavMaxVal == 2      \* largest value in such an input
MaxVersion == 5     \* observer notifications followed in one run
MaxTicks == 6       \* timer ticks counted after a start()
MaxNexts == 5       \* next() calls counted after a reset()
HoverMaxLen == 2    \* longest input under a hover manager driven directly
EditMaxLen == 3     \* longest text typed into the input editor
DedupMaxLen == 4    \* longest list given to deduplicateInput alone
DedupMaxVal == 2    \* largest value in such a list

----------------------------------------------------------------------------
(* Helpers *)

None == <<>>
Some(x) == <<x>>

At(arr, i) == arr[i + 1]
SetAt(arr, i, v) == [arr EXCEPT ![i + 1] = v]
Last(arr) == arr[Len(arr)]

Max(S) == CHOOSE x \in S : \A y \in S : y <= x
Min(S) == CHOOSE x \in S : \A y \in S : x <= y

RECURSIVE Reverse(_)
Reverse(s) == IF s = <<>> THEN <<>> ELSE Append(Reverse(Tail(s)), Head(s))

RECURSIVE SeqsUpTo(_, _)
SeqsUpTo(S, n) ==
    IF n = 0 THEN {<<>>}
    ELSE LET shorter == SeqsUpTo(S, n - 1)
         IN shorter \cup {Append(s, x) : s \in {t \in shorter : Len(t) = n - 1}, x \in S}

----------------------------------------------------------------------------
(* Trace engine *)

RECURSIVE findInsertLoop(_, _, _, _, _)
findInsertLoop(sequence, indexes, target, low, high) ==
    IF low < high
    THEN LET middle == (low + high) \div 2
             middleIndex == At(sequence, middle)
         IN IF At(indexes, middleIndex) < target
            THEN findInsertLoop(sequence, indexes, target, middle + 1, high)
            ELSE findInsertLoop(sequence, indexes, target, low, middle)
    ELSE low

RECURSIVE findInsertLoopUpper(_, _, _, _, _)
findInsertLoopUpper(sequence, indexes, target, low, high) ==
    IF low < high
    THEN LET middle == (low + high) \div 2
             middleIndex == At(sequence, middle)
         IN IF At(indexes, middleIndex) <= target
            THEN findInsertLoopUpper(sequence, indexes, target, middle + 1, high)
            ELSE findInsertLoopUpper(sequence, indexes, target, low, middle)
    ELSE low

findInsertPositionUpper(sequence, indexes, target) ==
    findInsertLoopUpper(sequence, indexes, target, 0, Len(sequence) - 1)

findInsertPositionLast(sequence, indexes, target) == Len(sequence) - 1

findInsertPosition(sequence, indexes, target) ==
    findInsertLoop(sequence, indexes, target, 0, Len(sequence) - 1)

\* determineAction with one deviation, named by `variant`.
determineActionVariant(indexes, currentIndex, currentValue, sequence, predecessors, variant) ==
    IF currentValue = -1 /\ variant # "noSentinelCheck"
    THEN [action |-> [type |-> "skip", index |-> currentIndex],
          sequence |-> sequence,
          predecessors |->
              IF variant = "skipRecordsPred"
              THEN SetAt(predecessors, currentIndex,
                         IF sequence = <<>> THEN -1 ELSE Last(sequence))
              ELSE IF variant = "skipLinksForward" /\ currentIndex + 1 < Len(indexes)
              THEN SetAt(predecessors, currentIndex, currentIndex + 1)
              ELSE predecessors]
    ELSE IF \/ sequence = <<>>
            \/ currentValue > At(indexes, Last(sequence))
            \/ variant = "appendOnEqual" /\ currentValue = At(indexes, Last(sequence))
    THEN [action |-> [type |-> "append", index |-> currentIndex],
          sequence |-> Append(sequence, currentIndex),
          predecessors |-> SetAt(predecessors, currentIndex,
                                 IF sequence = <<>> THEN -1 ELSE Last(sequence))]
    ELSE LET insertPosition == findInsertPosition(sequence, indexes, currentValue)
             replaceIndex == At(sequence, insertPosition)
             replaceValue == At(indexes, replaceIndex)
             better == CASE variant = "replaceOnEqual" -> currentValue <= replaceValue
                         [] variant = "flipped" -> currentValue > replaceValue
                         [] OTHER -> currentValue < replaceValue
         IN IF better
            THEN [action |-> [type |-> "replace",
                              position |-> IF variant = "positionOffByOne"
                                           THEN insertPosition + 1
                                           ELSE insertPosition,
                              index |-> currentIndex],
                  sequence |->
                      IF variant = "truncate"
                      THEN Append(SubSeq(sequence, 1, insertPosition), currentIndex)
                      ELSE SetAt(sequence, insertPosition, currentIndex),
                  predecessors |->
                      SetAt(IF variant = "relinkNext"
                               /\ insertPosition + 1 < Len(sequence)
                            THEN SetAt(predecessors,
                                       At(sequence, insertPosition + 1),
                                       currentIndex)
                            ELSE IF variant = "clearReplacedPred"
                            THEN SetAt(predecessors, replaceIndex, -1)
                            ELSE predecessors,
                            currentIndex,
                            IF variant = "predAtPosition"
                            THEN At(sequence, insertPosition)
                            ELSE IF insertPosition > 0
                            THEN At(sequence, insertPosition - 1)
                            ELSE -1)]
            ELSE [action |-> [type |-> "skip", index |-> currentIndex],
                  sequence |-> sequence, predecessors |-> predecessors]

determineActionAppendOnEqual(indexes, currentIndex, currentValue, sequence, predecessors) ==
    determineActionVariant(indexes, currentIndex, currentValue, sequence,
                           predecessors, "appendOnEqual")

determineActionPositionOffByOne(indexes, currentIndex, currentValue, sequence, predecessors) ==
    determineActionVariant(indexes, currentIndex, currentValue, sequence,
                           predecessors, "positionOffByOne")

determineActionSkipLinksForward(indexes, currentIndex, currentValue, sequence, predecessors) ==
    determineActionVariant(indexes, currentIndex, currentValue, sequence,
                           predecessors, "skipLinksForward")

determineActionClearReplacedPred(indexes, currentIndex, currentValue, sequence, predecessors) ==
    determineActionVariant(indexes, currentIndex, currentValue, sequence,
                           predecessors, "clearReplacedPred")

determineActionRelinkNext(indexes, currentIndex, currentValue, sequence, predecessors) ==
    determineActionVariant(indexes, currentIndex, currentValue, sequence,
                           predecessors, "relinkNext")

determineActionTruncate(indexes, currentIndex, currentValue, sequence, predecessors) ==
    determineActionVariant(indexes, currentIndex, currentValue, sequence,
                           predecessors, "truncate")

determineActionPredAtPosition(indexes, currentIndex, currentValue, sequence, predecessors) ==
    determineActionVariant(indexes, currentIndex, currentValue, sequence,
                           predecessors, "predAtPosition")

determineActionSkipRecordsPred(indexes, currentIndex, currentValue, sequence, predecessors) ==
    determineActionVariant(indexes, currentIndex, currentValue, sequence,
                           predecessors, "skipRecordsPred")

determineActionReplaceOnEqual(indexes, currentIndex, currentValue, sequence, predecessors) ==
    determineActionVariant(indexes, currentIndex, currentValue, sequence,
                           predecessors, "replaceOnEqual")

determineActionFlipped(indexes, currentIndex, currentValue, sequence, predecessors) ==
    determineActionVariant(indexes, currentIndex, currentValue, sequence,
                           predecessors, "flipped")

determineActionNoSentinelCheck(indexes, currentIndex, currentValue, sequence, predecessors) ==
    determineActionVariant(indexes, currentIndex, currentValue, sequence,
                           predecessors, "noSentinelCheck")

\* Returns the action together with the (mutated) sequence and predecessors.
determineAction(indexes, currentIndex, currentValue, sequence, predecessors) ==
    IF currentValue = -1
    THEN [action |-> [type |-> "skip", index |-> currentIndex],
          sequence |-> sequence, predecessors |-> predecessors]
    ELSE IF sequence = <<>> \/ currentValue > At(indexes, Last(sequence))
    THEN [action |-> [type |-> "append", index |-> currentIndex],
          sequence |-> Append(sequence, currentIndex),
          predecessors |-> SetAt(predecessors, currentIndex,
                                 IF sequence = <<>> THEN -1 ELSE Last(sequence))]
    ELSE LET insertPosition == findInsertPosition(sequence, indexes, currentValue)
             replaceIndex == At(sequence, insertPosition)
             replaceValue == At(indexes, replaceIndex)
         IN IF currentValue < replaceValue
            THEN [action |-> [type |-> "replace", position |-> insertPosition,
                              index |-> currentIndex],
                  sequence |-> SetAt(sequence, insertPosition, currentIndex),
                  predecessors |-> SetAt(predecessors, currentIndex,
                        IF insertPosition > 0 THEN At(sequence, insertPosition - 1)
                        ELSE -1)]
            ELSE [action |-> [type |-> "skip", index |-> currentIndex],
                  sequence |-> sequence, predecessors |-> predecessors]

RECURSIVE walkPredecessors(_, _)
\* The while loop shared by traceSequenceResult and refreshHoverState:
\* collects tailIndex and its predecessors, nearest first.
walkPredecessors(tailIndex, predecessors) ==
    IF tailIndex >= 0
    THEN <<tailIndex>> \o walkPredecessors(At(predecessors, tailIndex), predecessors)
    ELSE <<>>

traceSequenceResultUnreversed(sequence, predecessors) ==
    walkPredecessors(IF sequence = <<>> THEN -1 ELSE Last(sequence), predecessors)

traceSequenceResultTails(sequence, predecessors) == sequence

traceSequenceResult(sequence, predecessors) ==
    Reverse(walkPredecessors(IF sequence = <<>> THEN -1 ELSE Last(sequence),
                             predecessors))

RECURSIVE traceLoop(_, _, _, _, _)
traceLoop(indexes, currentIndex, sequence, predecessors, steps) ==
    IF currentIndex < Len(indexes)
    THEN LET currentValue == At(indexes, currentIndex)
             d == determineAction(indexes, currentIndex, currentValue,
                                  sequence, predecessors)
         IN traceLoop(indexes, currentIndex + 1, d.sequence, d.predecessors,
                Append(steps, [stepIndex |-> currentIndex + 1,
                               currentIndex |-> currentIndex,
                               currentValue |-> currentValue,
                               action |-> d.action,
                               sequence |-> d.sequence,
                               predecessors |-> d.predecessors]))
    ELSE [input |-> indexes, steps |-> steps,
          result |-> traceSequenceResult(sequence, predecessors)]

traceWithoutInitStep(indexes) ==
    traceLoop(indexes, 0, <<>>, [i \in 1..Len(indexes) |-> -1], <<>>)

traceLongestIncreasingSubsequence(indexes) ==
    LET predecessors == [i \in 1..Len(indexes) |-> -1]
    IN traceLoop(indexes, 0, <<>>, predecessors,
                 <<[stepIndex |-> 0, currentIndex |-> -1, currentValue |-> -1,
                    action |-> [type |-> "init"], sequence |-> <<>>,
                    predecessors |-> predecessors]>>)

----------------------------------------------------------------------------
(* Input utilities *)

\* Text is a sequence of one-character strings.
Digit(d) == CASE d = 0 -> "0" [] d = 1 -> "1" [] d = 2 -> "2" [] d = 3 -> "3"
              [] d = 4 -> "4" [] d = 5 -> "5" [] d = 6 -> "6" [] d = 7 -> "7"
              [] d = 8 -> "8" [] d = 9 -> "9"

RECURSIVE toString(_)
\* String(n) of an integer, as Array.prototype.join writes each element.
toString(n) ==
    IF n < 0 THEN <<"-">> \o toString(-n)
    ELSE IF n < 10 THEN <<Digit(n)>>
    ELSE Append(toString(n \div 10), Digit(n % 10))

RECURSIVE join(_)
\* numbers.join(', ')
join(numbers) ==
    IF numbers = <<>> THEN <<>>
    ELSE IF Len(numbers) = 1 THEN toString(numbers[1])
    ELSE toString(numbers[1]) \o <<",", " ">> \o join(Tail(numbers))

RECURSIVE deduplicateLoop(_, _, _)
deduplicateLoop(numbers, seen, result) ==
    IF numbers = <<>> THEN result
    ELSE LET n == Head(numbers)
         IN IF n = -1 THEN deduplicateLoop(Tail(numbers), seen, Append(result, -1))
            ELSE IF n \in seen
            THEN deduplicateLoop(Tail(numbers), seen, Append(result, -1))
            ELSE deduplicateLoop(Tail(numbers), seen \cup {n}, Append(result, n))

RECURSIVE deduplicateDropLoop(_, _, _)
deduplicateDropLoop(numbers, seen, result) ==
    IF numbers = <<>> THEN result
    ELSE LET n == Head(numbers)
         IN IF n = -1 THEN deduplicateDropLoop(Tail(numbers), seen, Append(result, -1))
            ELSE IF n \in seen
            THEN deduplicateDropLoop(Tail(numbers), seen, result)
            ELSE deduplicateDropLoop(Tail(numbers), seen \cup {n}, Append(result, n))

deduplicateInputDropping(numbers) == deduplicateDropLoop(numbers, {}, <<>>)

deduplicateInput(numbers) == deduplicateLoop(numbers, {}, <<>>)

\* The characters of a text that /[,\s]+/ matches, and those trim() strips.
IsSeparator(c) == c \in {",", " "}
IsSpace(c) == c = " "

RECURSIVE trimStart(_)
trimStart(text) ==
    IF text # <<>> /\ IsSpace(Head(text)) THEN trimStart(Tail(text)) ELSE text

trim(text) == Reverse(trimStart(Reverse(trimStart(text))))

RECURSIVE splitLoop(_, _, _)
\* text.split(/[,\s]+/): the pieces between maximal runs of separators, the
\* empty piece before a leading run and after a trailing run included.
splitLoop(rest, piece, pieces) ==
    IF rest = <<>> THEN Append(pieces, piece)
    ELSE IF IsSeparator(Head(rest))
    THEN IF Len(rest) > 1 /\ IsSeparator(rest[2])
         THEN splitLoop(Tail(rest), piece, pieces)
         ELSE splitLoop(Tail(rest), <<>>, Append(pieces, piece))
    ELSE splitLoop(Tail(rest), Append(piece, Head(rest)), pieces)

split(text) == splitLoop(text, <<>>, <<>>)

\* pieces.filter(Boolean): drops the empty strings.
filterBoolean(pieces) == SelectSeq(pieces, LAMBDA piece : piece # <<>>)

IsDigit(c) == c \in {"0", "1", "2", "3", "4", "5", "6", "7", "8", "9"}

DigitValue(c) == CHOOSE d \in 0..9 : Digit(d) = c

RECURSIVE DigitsValue(_)
DigitsValue(digits) ==
    IF digits = <<>> THEN 0
    ELSE 10 * DigitsValue(SubSeq(digits, 1, Len(digits) - 1))
            + DigitValue(Last(digits))

RECURSIVE Pow10(_)
Pow10(k) == IF k = 0 THEN 1 ELSE 10 * Pow10(k - 1)

\* Number(part) for a part made of digits, "-", "." and letters that belong
\* to no numeric literal: NaN, or the decimal mantissa / 10^scale with its
\* sign.  The empty string converts to 0.
NaN == [nan |-> TRUE, negative |-> FALSE, mantissa |-> 0, scale |-> 0]

Number(part) ==
    LET negative == part # <<>> /\ Head(part) = "-"
        body == IF negative THEN Tail(part) ELSE part
        dots == {k \in 1..Len(body) : body[k] = "."}
        digits == SelectSeq(body, IsDigit)
        wellFormed == /\ \A k \in 1..Len(body) : IsDigit(body[k]) \/ body[k] = "."
                      /\ Cardinality(dots) <= 1
                      /\ digits # <<>>
    IN IF part = <<>>
       THEN [nan |-> FALSE, negative |-> FALSE, mantissa |-> 0, scale |-> 0]
       ELSE IF ~wellFormed THEN NaN
       ELSE [nan |-> FALSE, negative |-> negative,
             mantissa |-> DigitsValue(digits),
             scale |-> IF dots = {} THEN 0
                       ELSE Len(body) - (CHOOSE k \in dots : TRUE)]

isNaN(number) == number.nan
LessThanMinusOne(number) ==
    number.negative /\ number.mantissa > Pow10(number.scale)
isInteger(number) == number.mantissa % Pow10(number.scale) = 0
\* The integer an integral number is (JavaScript's -0 is 0 here).
IntegerOf(number) ==
    IF number.negative THEN -(number.mantissa \div Pow10(number.scale))
    ELSE number.mantissa \div Pow10(number.scale)

RECURSIVE parseLoop(_, _)
parseLoop(parts, numbers) ==
    IF parts = <<>>
    THEN [success |-> TRUE, data |-> deduplicateInput(numbers)]
    ELSE LET part == Head(parts)
             number == Number(part)
         IN IF isNaN(number)
            THEN [success |-> FALSE, error |-> [kind |-> "invalid", part |-> part]]
            ELSE IF LessThanMinusOne(number)
            THEN [success |-> FALSE, error |-> [kind |-> "negative", part |-> part]]
            ELSE IF ~isInteger(number)
            THEN [success |-> FALSE, error |-> [kind |-> "fractional", part |-> part]]
            ELSE parseLoop(Tail(parts), Append(numbers, IntegerOf(number)))

parseInput(value) ==
    LET trimmed == trim(value)
    IN IF trimmed = <<>> THEN [success |-> TRUE, data |-> <<>>]
       ELSE parseLoop(filterBoolean(split(trimmed)), <<>>)

defaultInput == <<2, 1, 3, 0, 4>>
defaultSpeed == 500

\* The slider offers 100..2000 in steps of 100; two of its values and the default.
Speeds == {100, defaultSpeed}

----------------------------------------------------------------------------
(* Step navigator: nav is [trace, currentStepIndex] *)

createStepNavigator(t) == [trace |-> t, currentStepIndex |-> 0]

getState(nav) ==
    [currentStep |-> nav.currentStepIndex,
     totalSteps |-> Len(nav.trace.steps),
     canGoBack |-> nav.currentStepIndex > 0,
     canGoForward |-> nav.currentStepIndex < Len(nav.trace.steps) - 1]

getCurrentStep(nav) ==
    IF nav.currentStepIndex >= 0 /\ nav.currentStepIndex < Len(nav.trace.steps)
    THEN Some(At(nav.trace.steps, nav.currentStepIndex))
    ELSE None

getPreviousStep(nav) ==
    IF nav.currentStepIndex > 0
    THEN LET i == nav.currentStepIndex - 1
         IN IF i < Len(nav.trace.steps) THEN Some(At(nav.trace.steps, i)) ELSE None
    ELSE None

\* The moving operations return the navigator after the call and the call's result.
nextPastEnd(nav) ==
    IF nav.currentStepIndex < Len(nav.trace.steps)
    THEN LET moved == [nav EXCEPT !.currentStepIndex = @ + 1]
         IN [navigator |-> moved, result |-> getCurrentStep(moved)]
    ELSE [navigator |-> nav, result |-> None]

next(nav) ==
    IF nav.currentStepIndex < Len(nav.trace.steps) - 1
    THEN LET moved == [nav EXCEPT !.currentStepIndex = @ + 1]
         IN [navigator |-> moved, result |-> getCurrentStep(moved)]
    ELSE [navigator |-> nav, result |-> None]

previousBelowZero(nav) ==
    IF nav.currentStepIndex >= 0
    THEN LET moved == [nav EXCEPT !.currentStepIndex = @ - 1]
         IN [navigator |-> moved, result |-> getCurrentStep(moved)]
    ELSE [navigator |-> nav, result |-> None]

previous(nav) ==
    IF nav.currentStepIndex > 0
    THEN LET moved == [nav EXCEPT !.currentStepIndex = @ - 1]
         IN [navigator |-> moved, result |-> getCurrentStep(moved)]
    ELSE [navigator |-> nav, result |-> None]

goToInclusiveEnd(nav, stepIndex) ==
    IF stepIndex >= 0 /\ stepIndex <= Len(nav.trace.steps)
    THEN LET moved == [nav EXCEPT !.currentStepIndex = stepIndex]
         IN [navigator |-> moved, result |-> getCurrentStep(moved)]
    ELSE [navigator |-> nav, result |-> None]

goToUnchecked(nav, stepIndex) ==
    LET moved == [nav EXCEPT !.currentStepIndex = stepIndex]
    IN [navigator |-> moved, result |-> getCurrentStep(moved)]

goTo(nav, stepIndex) ==
    IF stepIndex >= 0 /\ stepIndex < Len(nav.trace.steps)
    THEN LET moved == [nav EXCEPT !.currentStepIndex = stepIndex]
         IN [navigator |-> moved, result |-> getCurrentStep(moved)]
    ELSE [navigator |-> nav, result |-> None]

reset(nav) ==
    [navigator |-> [nav EXCEPT !.currentStepIndex = 0], result |-> None]

----------------------------------------------------------------------------
(* The view's state as one record, so that a handler is the composition of *)
(* the calls it makes, in the order the code makes them.                   *)

View ==
    [input |-> input, trace |-> trace, navigator |-> navigator,
     isPlaying |-> isPlaying, speed |-> speed, playTimer |-> playTimer,
     timers |-> timers, hoveredChainIndexes |-> hoveredChainIndexes,
     hoveredChainInfo |-> hoveredChainInfo,
     isSequenceHovered |-> isSequenceHovered,
     isPredecessorsHovered |-> isPredecessorsHovered,
     navigatorVersion |-> navigatorVersion,
     calls |-> calls, returned |-> returned]

\* The view at the entry of the handler `name`.
Enter(name) == [View EXCEPT !.calls = <<name>>, !.returned = None]

Logged(s, call) == [s EXCEPT !.calls = Append(@, call)]

\* getNavigator().op(): stores the navigator after the call and what it returned.
callNavigator(s, r, call) ==
    [Logged(s, call) EXCEPT !.navigator = r.navigator, !.returned = r.result]

----------------------------------------------------------------------------
(* State manager *)

incrementVersion(s) ==
    [Logged(s, "incrementVersion") EXCEPT !.navigatorVersion = @ + 1]

----------------------------------------------------------------------------
(* Hover manager *)

buildChain(startIndex, predecessors) ==
    Reverse(walkPredecessors(startIndex, predecessors))

buildAllChains(sequence, predecessors) ==
    [k \in 1..Len(sequence) |-> buildChain(sequence[k], predecessors)]

\* buildChain of utils/chain-utils.ts: bounds check and cycle guard.
RECURSIVE chainUtilsWalk(_, _, _, _)
chainUtilsWalk(current, predecessors, visited, chain) ==
    IF current >= 0
    THEN IF current \in visited THEN chain
         ELSE chainUtilsWalk(IF current < Len(predecessors)
                             THEN At(predecessors, current) ELSE -1,
                             predecessors, visited \cup {current},
                             <<current>> \o chain)
    ELSE chain

chainUtilsBuildChain(startIndex, predecessors) ==
    IF startIndex < 0 \/ startIndex >= Len(predecessors) THEN <<>>
    ELSE chainUtilsWalk(startIndex, predecessors, {}, <<>>)

\* buildAllChains of utils/chain-utils.ts.
chainUtilsBuildAllChains(sequence, predecessors) ==
    [k \in 1..Len(sequence) |-> chainUtilsBuildChain(sequence[k], predecessors)]

handleChainHoverValidated(s, indexes, chainIndex) ==
    LET step == getCurrentStep(s.navigator)
    IN IF step # None /\ chainIndex >= 0 /\ chainIndex < Len(step[1].sequence)
       THEN [s EXCEPT !.hoveredChainInfo = Some([chainIndex |-> chainIndex]),
                      !.hoveredChainIndexes =
                          buildChain(At(step[1].sequence, chainIndex),
                                     step[1].predecessors)]
       ELSE s

handleChainHover(s, indexes, chainIndex) ==
    [s EXCEPT !.hoveredChainInfo = Some([chainIndex |-> chainIndex]),
              !.hoveredChainIndexes = indexes]

handleChainLeave(s) ==
    [s EXCEPT !.hoveredChainInfo = None, !.hoveredChainIndexes = <<>>]

handleSequenceHover(s) == [s EXCEPT !.isSequenceHovered = TRUE]
handleSequenceLeaveBoth(s) ==
    [s EXCEPT !.isSequenceHovered = FALSE, !.isPredecessorsHovered = FALSE]

handleSequenceLeave(s) == [s EXCEPT !.isSequenceHovered = FALSE]
handlePredecessorsHover(s) == [s EXCEPT !.isPredecessorsHovered = TRUE]
handlePredecessorsLeave(s) == [s EXCEPT !.isPredecessorsHovered = FALSE]

refreshHoverStateKeepStale(s) ==
    LET s0 == Logged(s, "refreshHoverState")
        currentStep == getCurrentStep(s.navigator)
        chainInfo == s.hoveredChainInfo
    IN IF chainInfo = None THEN s0
       ELSE IF currentStep = None
       THEN [s0 EXCEPT !.hoveredChainIndexes = <<>>, !.hoveredChainInfo = None]
       ELSE LET chainIndex == chainInfo[1].chainIndex
            IN IF chainIndex < 0 \/ chainIndex >= Len(currentStep[1].sequence)
               THEN [s0 EXCEPT !.hoveredChainIndexes = <<>>, !.hoveredChainInfo = None]
               ELSE s0

refreshHoverStateKeepInfo(s) ==
    LET s0 == Logged(s, "refreshHoverState")
        currentStep == getCurrentStep(s.navigator)
        chainInfo == s.hoveredChainInfo
    IN IF chainInfo = None THEN s0
       ELSE IF currentStep = None
       THEN [s0 EXCEPT !.hoveredChainIndexes = <<>>]
       ELSE LET sequence == currentStep[1].sequence
                predecessors == currentStep[1].predecessors
                chainIndex == chainInfo[1].chainIndex
            IN IF chainIndex < 0 \/ chainIndex >= Len(sequence)
               THEN [s0 EXCEPT !.hoveredChainIndexes = <<>>]
               ELSE [s0 EXCEPT !.hoveredChainIndexes =
                        Reverse(walkPredecessors(At(sequence, chainIndex), predecessors))]

refreshHoverStateClearInfoOnly(s) ==
    LET s0 == Logged(s, "refreshHoverState")
        currentStep == getCurrentStep(s.navigator)
        chainInfo == s.hoveredChainInfo
    IN IF chainInfo = None THEN s0
       ELSE IF currentStep = None
       THEN [s0 EXCEPT !.hoveredChainInfo = None]
       ELSE LET sequence == currentStep[1].sequence
                predecessors == currentStep[1].predecessors
                chainIndex == chainInfo[1].chainIndex
            IN IF chainIndex < 0 \/ chainIndex >= Len(sequence)
               THEN [s0 EXCEPT !.hoveredChainInfo = None]
               ELSE [s0 EXCEPT !.hoveredChainIndexes =
                        Reverse(walkPredecessors(At(sequence, chainIndex), predecessors))]

refreshHoverState(s) ==
    LET s0 == Logged(s, "refreshHoverState")
        currentStep == getCurrentStep(s.navigator)
        chainInfo == s.hoveredChainInfo
    IN IF chainInfo = None THEN s0
       ELSE IF currentStep = None
       THEN [s0 EXCEPT !.hoveredChainIndexes = <<>>, !.hoveredChainInfo = None]
       ELSE LET sequence == currentStep[1].sequence
                predecessors == currentStep[1].predecessors
                chainIndex == chainInfo[1].chainIndex
            IN IF chainIndex < 0 \/ chainIndex >= Len(sequence)
               THEN [s0 EXCEPT !.hoveredChainIndexes = <<>>, !.hoveredChainInfo = None]
               ELSE [s0 EXCEPT !.hoveredChainIndexes =
                        Reverse(walkPredecessors(At(sequence, chainIndex), predecessors))]

----------------------------------------------------------------------------
(* Orchestration: step update *)

updateStepNotifyFirst(s) == refreshHoverState(incrementVersion(s))

updateStep(s) == incrementVersion(refreshHoverState(s))

----------------------------------------------------------------------------
(* Playback controller *)

\* Host timer table: setInterval hands out a handle no live timer uses.
TimerIds(ts) == {t.id : t \in ts}
FreshTimerId(ts) == Min((1..(Cardinality(ts) + 1)) \ TimerIds(ts))

clearInterval(s, handle) ==
    [Logged(s, "clearInterval") EXCEPT !.timers = {t \in @ : t.id # handle}]

stopKeepTimer(s) ==
    LET s0 == Logged(s, "stop")
        s1 == IF s0.playTimer # 0 THEN [s0 EXCEPT !.playTimer = 0] ELSE s0
    IN [s1 EXCEPT !.isPlaying = FALSE]

stopKeepFlag(s) ==
    LET s0 == Logged(s, "stop")
    IN IF s0.playTimer # 0
       THEN [clearInterval(s0, s0.playTimer) EXCEPT !.playTimer = 0]
       ELSE s0

stop(s) ==
    LET s0 == Logged(s, "stop")
        s1 == IF s0.playTimer # 0
              THEN [clearInterval(s0, s0.playTimer) EXCEPT !.playTimer = 0]
              ELSE s0
    IN [s1 EXCEPT !.isPlaying = FALSE]

startNoStop(s) ==
    LET s1 == [Logged(s, "start") EXCEPT !.isPlaying = TRUE]
        id == FreshTimerId(s1.timers)
    IN [Logged(s1, "setInterval") EXCEPT
            !.timers = @ \cup {[id |-> id, interval |-> s1.speed]},
            !.playTimer = id]

start(s) ==
    LET s1 == [stop(Logged(s, "start")) EXCEPT !.isPlaying = TRUE]
        id == FreshTimerId(s1.timers)
    IN [Logged(s1, "setInterval") EXCEPT
            !.timers = @ \cup {[id |-> id, interval |-> s1.speed]},
            !.playTimer = id]

\* The callback start() hands to setInterval.
timerCallbackNoStop(s) ==
    LET s1 == callNavigator(s, next(s.navigator), "next")
    IN IF s1.returned # None THEN updateStep(s1) ELSE s1

timerCallback(s) ==
    LET s1 == callNavigator(s, next(s.navigator), "next")
    IN IF s1.returned # None THEN updateStep(s1) ELSE stop(s1)

toggleAlwaysStart(s) == start(s)

toggle(s) == IF s.isPlaying THEN stop(s) ELSE start(s)

updateSpeedNoRestart(s, newSpeed) == [s EXCEPT !.speed = newSpeed]

updateSpeed(s, newSpeed) ==
    LET s1 == [s EXCEPT !.speed = newSpeed]
    IN IF s1.isPlaying THEN start(s1) ELSE s1

dispose(s) == stop(s)

----------------------------------------------------------------------------
(* Orchestration: the view's closures and the event handlers *)

resetNavigatorKeepOld(s) == updateStep(s)

resetNavigator(s) ==
    LET t == traceLongestIncreasingSubsequence(s.input)
        s1 == [Logged(s, "trace") EXCEPT !.trace = t]
        s2 == [Logged(s1, "createStepNavigator") EXCEPT
                    !.navigator = createStepNavigator(t)]
    IN updateStep(s2)

handleInputChangeNoStop(s, newInput) ==
    resetNavigator([Logged(s, "input.set") EXCEPT !.input = newInput])

handleInputChange(s, newInput) ==
    LET s1 == stop(s)
        s2 == [Logged(s1, "input.set") EXCEPT !.input = newInput]
    IN resetNavigator(s2)

handlePrevious(s) == updateStep(callNavigator(s, previous(s.navigator), "prev"))

handleNextStopping(s) ==
    updateStep(callNavigator(stop(s), next(s.navigator), "next"))

handleNext(s) == updateStep(callNavigator(s, next(s.navigator), "next"))

handleResetNoStop(s) ==
    updateStep(callNavigator(s, reset(s.navigator), "reset"))

handleReset(s) ==
    updateStep(callNavigator(stop(s), reset(s.navigator), "reset"))

handleTogglePlay(s) == toggle(s)

handleSpeedChange(s, newSpeed) == updateSpeed(s, newSpeed)

handleIndexClickNoStop(s, index) ==
    updateStep(callNavigator(s, goTo(s.navigator, index + 1), "goTo"))

handleIndexClick(s, index) ==
    updateStep(callNavigator(stop(s), goTo(s.navigator, index + 1), "goTo"))

handleGoToEnd(s) ==
    LET s1 == stop(s)
        navState == getState(s1.navigator)
    IN updateStep(callNavigator(s1, goTo(s1.navigator, navState.totalSteps - 1),
                                "goTo"))

onUnmounted(s) == dispose(s)

----------------------------------------------------------------------------
(* Input editor: an editor is [view, inputText, error]; onInputChange is   *)
(* the view's handleInputChange.                                           *)

Editor(name) == [view |-> Enter(name), inputText |-> inputText, error |-> error]

handleInputNotifyAlways(e, value) ==
    LET result == parseInput(value)
    IN IF result.success
       THEN [view |-> handleInputChange(e.view, result.data),
             inputText |-> value, error |-> None]
       ELSE [view |-> handleInputChange(e.view, <<>>),
             inputText |-> value, error |-> Some(result.error)]

handleInput(e, value) ==
    LET result == parseInput(value)
    IN IF result.success
       THEN [view |-> handleInputChange(e.view, result.data),
             inputText |-> value, error |-> None]
       ELSE [view |-> e.view, inputText |-> value, error |-> Some(result.error)]

handleClear(e) ==
    [view |-> handleInputChange(e.view, <<>>), inputText |-> <<>>, error |-> None]

\* handleReset of the input editor.
handleResetInput(e) ==
    [view |-> handleInputChange(e.view, defaultInput),
     inputText |-> join(defaultInput), error |-> None]

----------------------------------------------------------------------------
(* The running view *)

Commit(s) ==
    /\ input' = s.input
    /\ trace' = s.trace
    /\ navigator' = s.navigator
    /\ isPlaying' = s.isPlaying
    /\ speed' = s.speed
    /\ playTimer' = s.playTimer
    /\ timers' = s.timers
    /\ hoveredChainIndexes' = s.hoveredChainIndexes
    /\ hoveredChainInfo' = s.hoveredChainInfo
    /\ isSequenceHovered' = s.isSequenceHovered
    /\ isPredecessorsHovered' = s.isPredecessorsHovered
    /\ navigatorVersion' = s.navigatorVersion
    /\ calls' = s.calls
    /\ returned' = s.returned

\* What the view is constructed with for a given input.
Setup(indexes) ==
    /\ input = indexes
    /\ trace = traceLongestIncreasingSubsequence(indexes)
    /\ navigator = createStepNavigator(traceLongestIncreasingSubsequence(indexes))
    /\ isPlaying = FALSE
    /\ speed = defaultSpeed
    /\ playTimer = 0
    /\ timers = {}
    /\ hoveredChainIndexes = <<>>
    /\ hoveredChainInfo = None
    /\ isSequenceHovered = FALSE
    /\ isPredecessorsHovered = FALSE
    /\ navigatorVersion = 0
    /\ mounted = TRUE
    /\ calls = <<"setup">>
    /\ returned = None
    /\ hoverAt = None
    /\ nexts = -1
    /\ ticks = [from |-> 0, count |-> 0]
    /\ args = None
    /\ inputText = join(indexes)
    /\ error = None

\* Inputs the input editor hands over: parsed text is deduplicated; the reset
\* button hands over the default input.
AppInputs ==
    {deduplicateInput(raw) : raw \in SeqsUpTo(-1..AppMaxVal, AppMaxLen)}
        \cup {defaultInput}

Init == Setup(defaultInput) /\ pc = "view"

\* The snapshot the rendering layer draws: step?.sequence ?? [].
Shown ==
    LET step == getCurrentStep(navigator)
    IN IF step = None THEN [sequence |-> <<>>, predecessors |-> <<>>]
       ELSE [sequence |-> step[1].sequence, predecessors |-> step[1].predecessors]

HandleInputChange ==
    \E newInput \in AppInputs :
        /\ mounted /\ navigatorVersion < MaxVersion
        /\ Commit(handleInputChange(Enter("handleInputChange"), newInput))
        /\ hoverAt' = None
        /\ UNCHANGED <<mounted, nexts, ticks, pc>>
        /\ args' = Some(newInput)
        /\ UNCHANGED <<inputText, error>>

HandlePrevious ==
    /\ mounted /\ navigatorVersion < MaxVersion
    /\ Commit(handlePrevious(Enter("handlePrevious")))
    /\ UNCHANGED <<mounted, hoverAt, nexts, ticks, pc>>
    /\ args' = None
    /\ UNCHANGED <<inputText, error>>

HandleNext ==
    /\ mounted /\ navigatorVersion < MaxVersion
    /\ Commit(handleNext(Enter("handleNext")))
    /\ UNCHANGED <<mounted, hoverAt, nexts, ticks, pc>>
    /\ args' = None
    /\ UNCHANGED <<inputText, error>>

HandleReset ==
    /\ mounted /\ navigatorVersion < MaxVersion
    /\ Commit(handleReset(Enter("handleReset")))
    /\ UNCHANGED <<mounted, hoverAt, nexts, ticks, pc>>
    /\ args' = None
    /\ UNCHANGED <<inputText, error>>

HandleGoToEnd ==
    /\ mounted /\ navigatorVersion < MaxVersion
    /\ Commit(handleGoToEnd(Enter("handleGoToEnd")))
    /\ UNCHANGED <<mounted, hoverAt, nexts, ticks, pc>>
    /\ args' = None
    /\ UNCHANGED <<inputText, error>>

HandleIndexClick ==
    \E index \in 0..(Len(trace.input) - 1) :
        /\ mounted /\ navigatorVersion < MaxVersion
        /\ Commit(handleIndexClick(Enter("handleIndexClick"), index))
        /\ UNCHANGED <<mounted, hoverAt, nexts, ticks, pc>>
        /\ args' = Some(index)
        /\ UNCHANGED <<inputText, error>>

HandleTogglePlay ==
    /\ mounted
    /\ Commit(handleTogglePlay(Enter("handleTogglePlay")))
    /\ UNCHANGED <<mounted, hoverAt, nexts, ticks, pc>>
    /\ args' = None
    /\ UNCHANGED <<inputText, error>>

HandleSpeedChange ==
    \E newSpeed \in Speeds :
        /\ mounted
        /\ Commit(handleSpeedChange(Enter("handleSpeedChange"), newSpeed))
        /\ UNCHANGED <<mounted, hoverAt, nexts, ticks, pc>>
        /\ args' = Some(newSpeed)
        /\ UNCHANGED <<inputText, error>>

\* The chain view hands over a chain it built from the snapshot it shows.
HandleChainHover ==
    \E chainIndex \in 0..(Len(Shown.sequence) - 1) :
        LET indexes == At(buildAllChains(Shown.sequence, Shown.predecessors),
                          chainIndex)
        IN /\ mounted
           /\ Commit(handleChainHover(Enter("handleChainHover"), indexes, chainIndex))
           /\ hoverAt' = Some(chainIndex)
           /\ UNCHANGED <<mounted, nexts, ticks, pc>>
           /\ args' = Some([indexes |-> indexes, chainIndex |-> chainIndex])
           /\ UNCHANGED <<inputText, error>>

HandleChainLeave ==
    /\ mounted
    /\ Commit(handleChainLeave(Enter("handleChainLeave")))
    /\ hoverAt' = None
    /\ UNCHANGED <<mounted, nexts, ticks, pc>>
    /\ args' = None
    /\ UNCHANGED <<inputText, error>>

HandleSequenceHover ==
    /\ mounted
    /\ Commit(handleSequenceHover(Enter("handleSequenceHover")))
    /\ UNCHANGED <<mounted, hoverAt, nexts, ticks, pc>>
    /\ args' = None
    /\ UNCHANGED <<inputText, error>>

HandleSequenceLeave ==
    /\ mounted
    /\ Commit(handleSequenceLeave(Enter("handleSequenceLeave")))
    /\ UNCHANGED <<mounted, hoverAt, nexts, ticks, pc>>
    /\ args' = None
    /\ UNCHANGED <<inputText, error>>

HandlePredecessorsHover ==
    /\ mounted
    /\ Commit(handlePredecessorsHover(Enter("handlePredecessorsHover")))
    /\ UNCHANGED <<mounted, hoverAt, nexts, ticks, pc>>
    /\ args' = None
    /\ UNCHANGED <<inputText, error>>

HandlePredecessorsLeave ==
    /\ mounted
    /\ Commit(handlePredecessorsLeave(Enter("handlePredecessorsLeave")))
    /\ UNCHANGED <<mounted, hoverAt, nexts, ticks, pc>>
    /\ args' = None
    /\ UNCHANGED <<inputText, error>>

\* A live interval timer fires; the host runs its callback to completion.
Tick ==
    \E t \in timers :
        /\ getState(navigator).canGoForward => navigatorVersion < MaxVersion
        /\ Commit(timerCallback(Enter("tick")))
        /\ UNCHANGED <<mounted, hoverAt, nexts, ticks, pc>>
        /\ args' = None
        /\ UNCHANGED <<inputText, error>>

Unmount ==
    /\ mounted
    /\ mounted' = FALSE
    /\ Commit(onUnmounted(Enter("onUnmounted")))
    /\ UNCHANGED <<hoverAt, nexts, ticks, pc>>
    /\ args' = None
    /\ UNCHANGED <<inputText, error>>

Next ==
    \/ HandleInputChange
    \/ HandlePrevious
    \/ HandleNext
    \/ HandleReset
    \/ HandleGoToEnd
    \/ HandleIndexClick
    \/ HandleTogglePlay
    \/ HandleSpeedChange
    \/ HandleChainHover
    \/ HandleChainLeave
    \/ HandleSequenceHover
    \/ HandleSequenceLeave
    \/ HandlePredecessorsHover
    \/ HandlePredecessorsLeave
    \/ Tick
    \/ Unmount

Spec == Init /\ [][Next]_vars

----------------------------------------------------------------------------
(* The trace engine alone, over every bounded input *)

TraceInputs == SeqsUpTo(-1..TraceMaxVal, TraceMaxLen)

EmptyTrace == [input |-> <<>>, steps |-> <<>>, result |-> <<>>]

TraceInit ==
    /\ input \in TraceInputs
    /\ trace = EmptyTrace
    /\ navigator = createStepNavigator(EmptyTrace)
    /\ isPlaying = FALSE
    /\ speed = defaultSpeed
    /\ playTimer = 0
    /\ timers = {}
    /\ hoveredChainIndexes = <<>>
    /\ hoveredChainInfo = None
    /\ isSequenceHovered = FALSE
    /\ isPredecessorsHovered = FALSE
    /\ navigatorVersion = 0
    /\ mounted = FALSE
    /\ calls = <<>>
    /\ returned = None
    /\ hoverAt = None
    /\ nexts = -1
    /\ ticks = [from |-> 0, count |-> 0]
    /\ pc = "input"
    /\ args = None
    /\ inputText = <<>>
    /\ error = None

RunTrace ==
    /\ pc = "input"
    /\ trace' = traceLongestIncreasingSubsequence(input)
    /\ pc' = "traced"
    /\ UNCHANGED <<input, navigator, isPlaying, speed, playTimer, timers,
                   hoveredChainIndexes, hoveredChainInfo, isSequenceHovered,
                   isPredecessorsHovered, navigatorVersion, mounted, calls,
                   returned, hoverAt, nexts, ticks>>
    /\ UNCHANGED <<args, inputText, error>>

TraceNext == RunTrace

SpecTrace == TraceInit /\ [][TraceNext]_vars

----------------------------------------------------------------------------
(* The navigator alone, driven through its own operations *)

NavInputs == SeqsUpTo(-1..NavMaxVal, NavMaxLen)

NavInit ==
    /\ \E indexes \in NavInputs : Setup(indexes)
    /\ pc = "navigator"

NavCommit(r, call) ==
    /\ navigator' = r.navigator
    /\ returned' = r.result
    /\ calls' = <<call>>

NavNext ==
    /\ nexts < MaxNexts
    /\ NavCommit(next(navigator), "next")
    /\ nexts' = IF nexts >= 0 THEN nexts + 1 ELSE -1
    /\ UNCHANGED <<input, trace, isPlaying, speed, playTimer, timers,
                   hoveredChainIndexes, hoveredChainInfo, isSequenceHovered,
                   isPredecessorsHovered, navigatorVersion, mounted, hoverAt,
                   ticks, pc>>
    /\ UNCHANGED <<args, inputText, error>>

NavPrev ==
    /\ NavCommit(previous(navigator), "prev")
    /\ nexts' = -1
    /\ UNCHANGED <<input, trace, isPlaying, speed, playTimer, timers,
                   hoveredChainIndexes, hoveredChainInfo, isSequenceHovered,
                   isPredecessorsHovered, navigatorVersion, mounted, hoverAt,
                   ticks, pc>>
    /\ UNCHANGED <<args, inputText, error>>

NavGoTo ==
    \E stepIndex \in -2..(NavMaxLen + 3) :
        /\ NavCommit(goTo(navigator, stepIndex), "goTo")
        /\ nexts' = -1
        /\ UNCHANGED <<input, trace, isPlaying, speed, playTimer, timers,
                       hoveredChainIndexes, hoveredChainInfo, isSequenceHovered,
                       isPredecessorsHovered, navigatorVersion, mounted, hoverAt,
                       ticks, pc>>
        /\ UNCHANGED <<args, inputText, error>>

NavReset ==
    /\ NavCommit(reset(navigator), "reset")
    /\ nexts' = 0
    /\ UNCHANGED <<input, trace, isPlaying, speed, playTimer, timers,
                   hoveredChainIndexes, hoveredChainInfo, isSequenceHovered,
                   isPredecessorsHovered, navigatorVersion, mounted, hoverAt,
                   ticks, pc>>
    /\ UNCHANGED <<args, inputText, error>>

NavStep == NavNext \/ NavPrev \/ NavGoTo \/ NavReset

SpecNav == NavInit /\ [][NavStep]_vars

----------------------------------------------------------------------------
(* Playback left to run: started at any cursor, then only the timer acts *)

PlayInit ==
    \E indexes \in NavInputs :
        \E stepIndex \in 0..Len(indexes) :
            /\ input = indexes
            /\ trace = traceLongestIncreasingSubsequence(indexes)
            /\ navigator = goTo(createStepNavigator(
                    traceLongestIncreasingSubsequence(indexes)), stepIndex).navigator
            /\ isPlaying = FALSE
            /\ speed = defaultSpeed
            /\ playTimer = 0
            /\ timers = {}
            /\ hoveredChainIndexes = <<>>
            /\ hoveredChainInfo = None
            /\ isSequenceHovered = FALSE
            /\ isPredecessorsHovered = FALSE
            /\ navigatorVersion = 0
            /\ mounted = TRUE
            /\ calls = <<"setup">>
            /\ returned = None
            /\ hoverAt = None
            /\ nexts = -1
            /\ ticks = [from |-> stepIndex, count |-> 0]
            /\ pc = "ready"
            /\ args = None
            /\ inputText = join(indexes)
            /\ error = None

PlayStart ==
    /\ pc = "ready"
    /\ Commit(start(Enter("start")))
    /\ pc' = "started"
    /\ UNCHANGED <<mounted, hoverAt, nexts, ticks>>
    /\ args' = None
    /\ UNCHANGED <<inputText, error>>

PlayTick ==
    \E t \in timers :
        /\ ticks.count < MaxTicks
        /\ Commit(timerCallback(Enter("tick")))
        /\ ticks' = [ticks EXCEPT !.count = @ + 1]
        /\ UNCHANGED <<mounted, hoverAt, nexts, pc>>
        /\ args' = None
        /\ UNCHANGED <<inputText, error>>

PlayNext == PlayStart \/ PlayTick

\* setInterval keeps firing while the timer is live.
SpecPlay == PlayInit /\ [][PlayNext]_vars /\ WF_vars(PlayTick)

----------------------------------------------------------------------------
(* The hover manager alone: any chain and position handed to it, the       *)
(* navigator moved underneath it, and refreshHoverState called on its own  *)

HoverInputs == SeqsUpTo(-1..(HoverMaxLen - 1), HoverMaxLen)
HoverLists == SeqsUpTo(0..(HoverMaxLen - 1), 2)
HoverPositions == -1..HoverMaxLen

HoverInit ==
    \E indexes \in HoverInputs :
        \E playing \in BOOLEAN :
            /\ input = indexes
            /\ trace = traceLongestIncreasingSubsequence(indexes)
            /\ navigator = createStepNavigator(
                    traceLongestIncreasingSubsequence(indexes))
            /\ isPlaying = playing
            /\ speed = defaultSpeed
            /\ playTimer = IF playing THEN 1 ELSE 0
            /\ timers = IF playing THEN {[id |-> 1, interval |-> defaultSpeed]}
                        ELSE {}
            /\ hoveredChainIndexes = <<>>
            /\ hoveredChainInfo = None
            /\ isSequenceHovered = FALSE
            /\ isPredecessorsHovered = FALSE
            /\ navigatorVersion = 0
            /\ mounted = TRUE
            /\ calls = <<"setup">>
            /\ returned = None
            /\ hoverAt = None
            /\ nexts = -1
            /\ ticks = [from |-> 0, count |-> 0]
            /\ args = None
            /\ inputText = join(indexes)
            /\ error = None
            /\ pc = "hover"

HoverMove ==
    \E stepIndex \in 0..Len(input) :
        /\ NavCommit(goTo(navigator, stepIndex), "goTo")
        /\ args' = Some(stepIndex)
        /\ UNCHANGED <<input, trace, isPlaying, speed, playTimer, timers,
                       hoveredChainIndexes, hoveredChainInfo, isSequenceHovered,
                       isPredecessorsHovered, navigatorVersion, mounted, hoverAt,
                       nexts, ticks, inputText, error, pc>>

HoverRefresh ==
    /\ Commit(refreshHoverState(Enter("refresh")))
    /\ args' = None
    /\ UNCHANGED <<mounted, hoverAt, nexts, ticks, inputText, error, pc>>

HoverChain ==
    \E indexes \in HoverLists :
        \E chainIndex \in HoverPositions :
            /\ Commit(handleChainHover(Enter("handleChainHover"), indexes, chainIndex))
            /\ hoverAt' = Some(chainIndex)
            /\ args' = Some([indexes |-> indexes, chainIndex |-> chainIndex])
            /\ UNCHANGED <<mounted, nexts, ticks, inputText, error, pc>>

HoverChainLeave ==
    /\ Commit(handleChainLeave(Enter("handleChainLeave")))
    /\ hoverAt' = None
    /\ args' = None
    /\ UNCHANGED <<mounted, nexts, ticks, inputText, error, pc>>

HoverNext == HoverMove \/ HoverRefresh \/ HoverChain \/ HoverChainLeave

SpecHover == HoverInit /\ [][HoverNext]_vars

----------------------------------------------------------------------------
(* The input editor over the default view: one edit from any cursor, with  *)
(* playback running or not and a chain hovered or not                      *)

Alphabet == {"0", "1", "-", ".", "a", ",", " "}
EditTexts == SeqsUpTo(Alphabet, EditMaxLen)

EditInit ==
    \E stepIndex \in 0..Len(defaultInput) :
        \E playing, hovering \in BOOLEAN :
            LET t == traceLongestIncreasingSubsequence(defaultInput)
                step == At(t.steps, stepIndex)
                hovered == hovering /\ step.sequence # <<>>
            IN /\ input = defaultInput
               /\ trace = t
               /\ navigator = goTo(createStepNavigator(t), stepIndex).navigator
               /\ isPlaying = playing
               /\ speed = defaultSpeed
               /\ playTimer = IF playing THEN 1 ELSE 0
               /\ timers = IF playing THEN {[id |-> 1, interval |-> defaultSpeed]}
                           ELSE {}
               /\ hoveredChainIndexes =
                      IF hovered THEN buildChain(At(step.sequence, 0), step.predecessors)
                      ELSE <<>>
               /\ hoveredChainInfo = IF hovered THEN Some([chainIndex |-> 0]) ELSE None
               /\ isSequenceHovered = hovering
               /\ isPredecessorsHovered = FALSE
               /\ navigatorVersion = 0
               /\ mounted = TRUE
               /\ calls = <<"setup">>
               /\ returned = None
               /\ hoverAt = IF hovered THEN Some(0) ELSE None
               /\ nexts = -1
               /\ ticks = [from |-> 0, count |-> 0]
               /\ args = None
               /\ inputText = join(defaultInput)
               /\ error = None
               /\ pc = "editor"

EditCommit(e) ==
    /\ Commit(e.view)
    /\ inputText' = e.inputText
    /\ error' = e.error
    /\ pc' = "edited"
    /\ hoverAt' = IF Len(e.view.calls) > 1 THEN None ELSE hoverAt
    /\ UNCHANGED <<mounted, nexts, ticks>>

EditInput ==
    \E value \in EditTexts :
        /\ pc = "editor"
        /\ EditCommit(handleInput(Editor("handleInput"), value))
        /\ args' = Some(value)

EditClear ==
    /\ pc = "editor"
    /\ EditCommit(handleClear(Editor("handleClear")))
    /\ args' = None

EditReset ==
    /\ pc = "editor"
    /\ EditCommit(handleResetInput(Editor("handleResetInput")))
    /\ args' = None

EditNext == EditInput \/ EditClear \/ EditReset

SpecEdit == EditInit /\ [][EditNext]_vars

----------------------------------------------------------------------------
(* deduplicateInput alone, over every bounded list, applied repeatedly *)

DedupInputs == SeqsUpTo(-1..DedupMaxVal, DedupMaxLen)

DedupInit ==
    /\ input \in DedupInputs
    /\ trace = EmptyTrace
    /\ navigator = createStepNavigator(EmptyTrace)
    /\ isPlaying = FALSE
    /\ speed = defaultSpeed
    /\ playTimer = 0
    /\ timers = {}
    /\ hoveredChainIndexes = <<>>
    /\ hoveredChainInfo = None
    /\ isSequenceHovered = FALSE
    /\ isPredecessorsHovered = FALSE
    /\ navigatorVersion = 0
    /\ mounted = FALSE
    /\ calls = <<>>
    /\ returned = None
    /\ hoverAt = None
    /\ nexts = -1
    /\ ticks = [from |-> 0, count |-> 0]
    /\ args = None
    /\ inputText = <<>>
    /\ error = None
    /\ pc = "numbers"

Deduplicate ==
    /\ pc \in {"numbers", "deduplicated"}
    /\ input' = deduplicateInput(input)
    /\ args' = Some(input)
    /\ pc' = "deduplicated"
    /\ UNCHANGED <<trace, navigator, isPlaying, speed, playTimer, timers,
                   hoveredChainIndexes, hoveredChainInfo, isSequenceHovered,
                   isPredecessorsHovered, navigatorVersion, mounted, calls,
                   returned, hoverAt, nexts, ticks, inputText, error>>

DedupNext == Deduplicate

SpecDedup == DedupInit /\ [][DedupNext]_vars

----------------------------------------------------------------------------
(* Claims *)

NoDuplicateValues(indexes) ==
    \A i, j \in 1..Len(indexes) :
        (i # j /\ indexes[i] # -1) => indexes[i] # indexes[j]

\* Reference: length of the longest strictly increasing run of the
\* non-sentinel elements, by the quadratic dynamic programme.
ReferenceLisLength(indexes) ==
    LET n == Len(indexes)
        best[i \in 1..n] ==
            IF indexes[i] = -1 THEN 0
            ELSE 1 + Max({0} \cup {best[j] : j \in {k \in 1..(i - 1) :
                            indexes[k] # -1 /\ indexes[k] < indexes[i]}})
    IN Max({0} \cup {best[i] : i \in 1..n})

MaxSequenceLength(t) == Max({Len(t.steps[k].sequence) : k \in 1..Len(t.steps)})

\* C1: for an input without duplicate non-sentinel values, the result of the
\* trace is a list of input indices, strictly increasing by position and by
\* input value, with no sentinel element, as long as the longest sequence of
\* any step, and as long as the reference longest increasing subsequence.
C1_TraceCorrect ==
    (pc = "traced" /\ NoDuplicateValues(input)) =>
        LET result == trace.result
        IN /\ \A k \in 1..Len(result) :
                /\ result[k] \in 0..(Len(input) - 1)
                /\ At(input, result[k]) # -1
           /\ \A k \in 1..(Len(result) - 1) :
                /\ result[k] < result[k + 1]
                /\ At(input, result[k]) < At(input, result[k + 1])
           /\ Len(result) = MaxSequenceLength(trace)
           /\ Len(result) = ReferenceLisLength(input)

C1_Witness ==
    /\ pc = "traced"
    /\ NoDuplicateValues(input)
    /\ Len(trace.result) >= 2
    /\ \E k \in 1..Len(input) : input[k] = -1
    /\ \E k \in 1..Len(trace.steps) : trace.steps[k].action.type = "replace"

Cursor == navigator.currentStepIndex
TotalSteps == Len(navigator.trace.steps)

\* The chain of the shown snapshot at a sequence position.
FreshChain(position) ==
    buildChain(At(Shown.sequence, position), Shown.predecessors)

\* C2 as stated: after a chain hover at position p and any navigator moves,
\* each followed by a refresh, hoveredChainIndexes is the chain of the current
\* snapshot at p, or empty if p is out of range for the current snapshot.
C2_HoverAlwaysFresh ==
    hoverAt # None =>
        hoveredChainIndexes =
            IF hoverAt[1] < Len(Shown.sequence) THEN FreshChain(hoverAt[1])
            ELSE <<>>

\* C2 amended: while the hover is still recorded, its position is in range and
\* hoveredChainIndexes is the chain of the current snapshot at p; a refresh
\* drops the hover only when p is out of range for the snapshot moved to, and
\* from then on hoveredChainIndexes is empty, also on snapshots where p is in
\* range again.
C2_HoverFreshOrCleared ==
    /\ [](hoverAt # None =>
            IF hoveredChainInfo # None
            THEN /\ hoveredChainInfo[1].chainIndex = hoverAt[1]
                 /\ hoverAt[1] < Len(Shown.sequence)
                 /\ hoveredChainIndexes = FreshChain(hoverAt[1])
            ELSE hoveredChainIndexes = <<>>)
    /\ [][(hoveredChainInfo # None /\ hoveredChainInfo' = None /\ hoverAt' # None)
            => hoverAt[1] >= Len(Shown.sequence)']_vars

C2_Witness ==
    /\ hoverAt = Some(1)
    /\ hoveredChainInfo # None
    /\ calls[1] \in {"handleNext", "handlePrevious", "handleIndexClick", "handleGoToEnd"}
    /\ returned # None
    /\ Len(hoveredChainIndexes) = 2

MovingHandlers ==
    {"handlePrevious", "handleNext", "handleReset", "handleIndexClick",
     "handleGoToEnd"}

NavigatorCalls == {"next", "prev", "goTo", "reset"}

Count(c, call) == Cardinality({k \in 1..Len(c) : c[k] = call})

\* C3: in every handler that moves the cursor, and in a tick whose next()
\* succeeded, the navigator call is directly followed by refreshHoverState and
\* then by one notification, which ends the handler and raises
\* navigatorVersion by exactly 1; no notification anywhere lacks the refresh
\* directly before it.
C3_MoveRefreshNotify ==
    [][LET c == calls'
           n == Len(c)
       IN /\ (c[1] \in MovingHandlers \/ (c[1] = "tick" /\ returned' # None)) =>
                /\ n >= 4
                /\ c[n - 2] \in NavigatorCalls
                /\ c[n - 1] = "refreshHoverState"
                /\ c[n] = "incrementVersion"
                /\ Count(c, "incrementVersion") = 1
                /\ Count(c, "refreshHoverState") = 1
                /\ {k \in 1..n : c[k] \in NavigatorCalls} = {n - 2}
                /\ navigatorVersion' = navigatorVersion + 1
          /\ \A k \in 1..n : c[k] = "incrementVersion" =>
                k > 1 /\ c[k - 1] = "refreshHoverState"
          /\ Count(c, "incrementVersion") = 0 => navigatorVersion' = navigatorVersion
      ]_vars

C3_Witness ==
    /\ calls = <<"tick", "next", "refreshHoverState", "incrementVersion">>
    /\ hoveredChainInfo # None
    /\ navigatorVersion >= 2

\* C4: handleInputChange stops playback before it stores the input,
\* recomputes the trace and replaces the navigator; and whenever a timer is
\* live (so a tick can call next()), the navigator is the one built from the
\* displayed trace, which is the trace of the stored input.
C4_TickOnDisplayedTrace ==
    /\ timers # {} =>
            /\ navigator.trace = trace
            /\ trace = traceLongestIncreasingSubsequence(input)
    /\ calls[1] = "handleInputChange" =>
            /\ calls \in {<<"handleInputChange", "stop", "input.set", "trace",
                           "createStepNavigator", "refreshHoverState",
                           "incrementVersion">>,
                          <<"handleInputChange", "stop", "clearInterval",
                            "input.set", "trace", "createStepNavigator",
                            "refreshHoverState", "incrementVersion">>}
            /\ ~isPlaying /\ timers = {} /\ playTimer = 0
            /\ navigator.trace = trace /\ trace.input = input
            /\ Cursor = 0

C4_Witness ==
    /\ timers # {}
    /\ input # defaultInput
    /\ Len(input) >= 1
    /\ calls[1] = "tick"
    /\ returned # None

\* C5: at most one playback timer is live in every reachable state, it is the
\* one the controller holds, and start() called in any reachable state (also
\* while Playing) leaves exactly one live timer and state Playing.
C5_OneTimer ==
    /\ Cardinality(timers) <= 1
    /\ TimerIds(timers) = (IF playTimer = 0 THEN {} ELSE {playTimer})
    /\ LET s == start(View)
       IN /\ Cardinality(s.timers) = 1
          /\ s.isPlaying
          /\ TimerIds(s.timers) = {s.playTimer}

C5_Witness ==
    /\ calls = <<"handleSpeedChange", "start", "stop", "clearInterval",
                 "setInterval">>
    /\ Cardinality(timers) = 1
    /\ isPlaying

WithoutCalls(s) == [s EXCEPT !.calls = <<>>]

Stopped(s) ==
    /\ ~s.isPlaying
    /\ s.playTimer = 0
    /\ s.timers = {}

\* C6: stop() and dispose() can be called in every reachable state, leave the
\* controller Stopped with no live timer and cursor, speed and hover state as
\* they were, and calling them twice gives what calling once gives; a timer
\* tick happens only while Playing, that is after a start() that no stop()
\* followed, and never after the view was unmounted.
C6_StopIdempotent ==
    /\ [](/\ \A s \in {stop(View), dispose(View)} :
                /\ Stopped(s)
                /\ WithoutCalls(stop(s)) = WithoutCalls(s)
                /\ WithoutCalls(dispose(s)) = WithoutCalls(s)
                /\ WithoutCalls(s) =
                      WithoutCalls([View EXCEPT !.isPlaying = FALSE,
                                                !.playTimer = 0, !.timers = {}])
          /\ ~isPlaying => timers = {}
          /\ ~mounted => Stopped(View))
    /\ [][calls'[1] = "tick" => (isPlaying /\ mounted /\ timers # {})]_vars

C6_Witness ==
    /\ ~mounted
    /\ calls = <<"onUnmounted", "stop", "clearInterval">>
    /\ Cursor > 0

\* C7: a timer tick while Playing below the last step advances the cursor by
\* exactly one, invokes onStepUpdate exactly once and stays Playing with its
\* timer; a tick at the last step leaves the cursor, invokes no onStepUpdate,
\* cancels the timer and becomes Stopped within that tick.
C7_TickStep ==
    [][calls'[1] = "tick" =>
        IF Cursor < TotalSteps - 1
        THEN /\ Cursor' = Cursor + 1
             /\ calls' = <<"tick", "next", "refreshHoverState", "incrementVersion">>
             /\ navigatorVersion' = navigatorVersion + 1
             /\ isPlaying' /\ UNCHANGED <<timers, playTimer>>
        ELSE /\ Cursor' = Cursor
             /\ calls' = <<"tick", "next", "stop", "clearInterval">>
             /\ UNCHANGED <<navigatorVersion, hoveredChainIndexes, hoveredChainInfo>>
             /\ ~isPlaying' /\ timers' = {} /\ playTimer' = 0
      ]_vars

C7_Witness ==
    /\ calls = <<"tick", "next", "stop", "clearInterval">>
    /\ ~isPlaying
    /\ Cursor = TotalSteps - 1
    /\ TotalSteps >= 3

\* C8: playback started at any cursor and left to its timer reaches Stopped
\* at the last step with no live timer, after exactly
\* (totalSteps - 1 - cursor) + 1 ticks.
C8_PlaybackStops ==
    /\ (pc = "started") ~>
            (Stopped(View) /\ Cursor = TotalSteps - 1)
    /\ [](pc = "started" =>
            IF isPlaying
            THEN /\ ticks.count <= TotalSteps - 1 - ticks.from
                 /\ Cursor = ticks.from + ticks.count
            ELSE /\ ticks.count = (TotalSteps - 1 - ticks.from) + 1
                 /\ Cursor = TotalSteps - 1
                 /\ Stopped(View))

C8_Witness ==
    /\ pc = "started"
    /\ Stopped(View)
    /\ ticks.from = 1
    /\ ticks.count = 3

\* C9: under any sequence of next, prev, goTo(k) for any integer k and reset,
\* the cursor stays within [0, totalSteps - 1], totalSteps stays
\* input.length + 1 >= 1, and getCurrentStep() is a snapshot whose stepIndex
\* is the cursor.
C9_CursorInRange ==
    /\ 0 <= Cursor /\ Cursor <= TotalSteps - 1
    /\ getState(navigator).totalSteps = Len(input) + 1
    /\ getState(navigator).currentStep = Cursor
    /\ getCurrentStep(navigator) # None
    /\ getCurrentStep(navigator)[1].stepIndex = Cursor

C9_Witness ==
    /\ pc = "navigator"
    /\ calls = <<"goTo">>
    /\ returned = None
    /\ Cursor = 2

\* C10: after reset() and n next() calls, n <= totalSteps - 1, the cursor is
\* n and canGoForward holds exactly while n < totalSteps - 1; any further
\* next() leaves the cursor at totalSteps - 1 and returns none.
C10_NextFromReset ==
    nexts >= 0 =>
        /\ nexts <= TotalSteps - 1 =>
                /\ Cursor = nexts
                /\ getState(navigator).canGoForward = (nexts < TotalSteps - 1)
                /\ nexts > 0 => returned = Some(At(trace.steps, nexts))
        /\ nexts > TotalSteps - 1 =>
                /\ Cursor = TotalSteps - 1
                /\ ~getState(navigator).canGoForward
                /\ returned = None

C10_Witness ==
    /\ pc = "navigator"
    /\ TotalSteps >= 3
    /\ nexts = TotalSteps
    /\ returned = None

\* C11: from any cursor position, goTo(k) with 0 <= k <= totalSteps - 1 sets
\* the cursor to k and returns steps[k]; goTo(k) with k < 0 or k >= totalSteps
\* (goTo(-1) and goTo(totalSteps) among them) leaves the cursor and returns
\* none.
C11_GoTo ==
    /\ \A k \in -2..(NavMaxLen + 3) :
            LET r == goTo(navigator, k)
            IN IF 0 <= k /\ k <= TotalSteps - 1
               THEN /\ getState(r.navigator).currentStep = k
                    /\ r.navigator.trace = navigator.trace
                    /\ r.result = Some(At(trace.steps, k))
               ELSE /\ r.navigator = navigator
                    /\ r.result = None
    /\ calls = <<"goTo">> =>
            \/ returned = Some(At(trace.steps, Cursor))
            \/ returned = None

C11_Witness ==
    /\ pc = "navigator"
    /\ calls = <<"goTo">>
    /\ TotalSteps = 4
    /\ Cursor = 3
    /\ returned = Some(At(trace.steps, 3))
    /\ goTo(navigator, TotalSteps).result = None
    /\ goTo(navigator, -1).navigator.currentStepIndex = 3

\* C12: next() and prev() move the cursor by exactly one and return the
\* snapshot at the new cursor when canGoForward, respectively canGoBack, held
\* before the call, and otherwise leave the cursor and return none;
\* getPreviousStep() is none exactly at cursor 0 and steps[cursor - 1]
\* otherwise.
C12_NextPrev ==
    /\ LET r == next(navigator)
       IN IF getState(navigator).canGoForward
          THEN /\ r.navigator.currentStepIndex = Cursor + 1
               /\ r.navigator.trace = navigator.trace
               /\ r.result = Some(At(trace.steps, Cursor + 1))
          ELSE r.navigator = navigator /\ r.result = None
    /\ LET r == previous(navigator)
       IN IF getState(navigator).canGoBack
          THEN /\ r.navigator.currentStepIndex = Cursor - 1
               /\ r.navigator.trace = navigator.trace
               /\ r.result = Some(At(trace.steps, Cursor - 1))
          ELSE r.navigator = navigator /\ r.result = None
    /\ getState(navigator).canGoForward = (Cursor < TotalSteps - 1)
    /\ getState(navigator).canGoBack = (Cursor > 0)
    /\ getPreviousStep(navigator) =
            (IF Cursor = 0 THEN None ELSE Some(At(trace.steps, Cursor - 1)))

C12_Witness ==
    /\ pc = "navigator"
    /\ calls = <<"prev">>
    /\ returned = None
    /\ Cursor = 0
    /\ TotalSteps >= 2
    /\ getPreviousStep(navigator) = None
    /\ getPreviousStep(next(navigator).navigator) = Some(At(trace.steps, 0))

\* The snapshot steps[k] of the computed trace, k counted from 0.
StepAt(k) == At(trace.steps, k)

\* C13: steps.length is input.length + 1; steps[0] is the Init snapshot with
\* empty sequence and every predecessors entry -1; steps[i + 1] has stepIndex
\* i + 1, currentIndex i and currentValue input[i].
C13_StepCount ==
    pc = "traced" =>
        /\ Len(trace.steps) = Len(input) + 1
        /\ trace.input = input
        /\ StepAt(0) = [stepIndex |-> 0, currentIndex |-> -1, currentValue |-> -1,
                        action |-> [type |-> "init"], sequence |-> <<>>,
                        predecessors |-> [i \in 1..Len(input) |-> -1]]
        /\ \A i \in 0..(Len(input) - 1) :
                /\ StepAt(i + 1).stepIndex = i + 1
                /\ StepAt(i + 1).currentIndex = i
                /\ StepAt(i + 1).currentValue = At(input, i)
                /\ StepAt(i + 1).action.type # "init"
                /\ Len(StepAt(i + 1).predecessors) = Len(input)

C13_Witness ==
    /\ pc = "traced"
    /\ Len(input) >= 3
    /\ Len(trace.steps) = Len(input) + 1
    /\ StepAt(3).currentValue = 0
    /\ StepAt(3).action.type = "replace"

\* C14: for every input, with or without duplicates or sentinels, the length
\* of steps[i].sequence never decreases in i and grows by at most one per
\* step.
C14_SequenceGrowth ==
    pc = "traced" =>
        \A i \in 0..(Len(trace.steps) - 2) :
            Len(StepAt(i + 1).sequence) - Len(StepAt(i).sequence) \in {0, 1}

C14_Witness ==
    /\ pc = "traced"
    /\ ~NoDuplicateValues(input)
    /\ \E i \in 1..(Len(trace.steps) - 2) :
            /\ Len(StepAt(i).sequence) >= 2
            /\ StepAt(i + 1).action.type = "replace"
            /\ StepAt(i + 1).action.position = 0
            /\ Len(StepAt(i + 1).sequence) = Len(StepAt(i).sequence)

\* Strictly increasing runs (as sets of positions) of the non-sentinel
\* elements among the first k input elements.
IncreasingRuns(indexes, k) ==
    {run \in SUBSET (0..(k - 1)) :
        /\ \A a \in run : At(indexes, a) # -1
        /\ \A a, b \in run : a < b => At(indexes, a) < At(indexes, b)}

\* C15: for an input without duplicate values, in every snapshot steps[k] the
\* value at sequence[j] is the least last value of any strictly increasing run
\* of length j + 1 among the first k elements, and sequence.length is the
\* length of the longest such run.
C15_MinimalTails ==
    (pc = "traced" /\ NoDuplicateValues(input)) =>
        \A k \in 0..Len(input) :
            LET runs == IncreasingRuns(input, k)
                sequence == StepAt(k).sequence
            IN /\ Len(sequence) = Max({Cardinality(run) : run \in runs})
               /\ \A j \in 0..(Len(sequence) - 1) :
                    At(input, At(sequence, j)) =
                        Min({At(input, Max(run)) :
                                run \in {r \in runs : Cardinality(r) = j + 1}})

C15_Witness ==
    /\ pc = "traced"
    /\ NoDuplicateValues(input)
    /\ Len(trace.steps) >= 5
    /\ Len(StepAt(4).sequence) = 2
    /\ StepAt(3).action.type = "replace"
    /\ StepAt(4).action.type = "replace"
    /\ StepAt(4).action.position = 1

\* C16: in every snapshot of every trace, for every position p of its
\* sequence, the chain walked back from sequence[p] has exactly p + 1 indices,
\* is strictly increasing by position and by input value, ends at sequence[p]
\* and holds no sentinel element.
C16_ChainShape ==
    pc = "traced" =>
        \A k \in 0..Len(input) :
            \A p \in 0..(Len(StepAt(k).sequence) - 1) :
                LET tail == At(StepAt(k).sequence, p)
                    chain == chainUtilsBuildChain(tail, StepAt(k).predecessors)
                IN /\ Len(chain) = p + 1
                   /\ Last(chain) = tail
                   /\ chain = buildChain(tail, StepAt(k).predecessors)
                   /\ \A n \in 1..Len(chain) :
                        /\ chain[n] \in 0..(Len(input) - 1)
                        /\ At(input, chain[n]) # -1
                   /\ \A n \in 1..(Len(chain) - 1) :
                        /\ chain[n] < chain[n + 1]
                        /\ At(input, chain[n]) < At(input, chain[n + 1])

C16_Witness ==
    /\ pc = "traced"
    /\ Len(input) >= 4
    /\ StepAt(4).action = [type |-> "replace", position |-> 1, index |-> 3]
    /\ chainUtilsBuildChain(3, StepAt(4).predecessors) = <<1, 3>>
    /\ \E k \in 1..Len(input) : input[k] = -1

\* C17: for every position i holding the sentinel, steps[i + 1] is Skip(i) with
\* sequence and predecessors equal to those of steps[i]; and the index of a
\* sentinel never appears in any snapshot's sequence, in any predecessors
\* entry, or in result.
C17_SentinelSkipped ==
    pc = "traced" =>
        \A i \in 0..(Len(input) - 1) :
            At(input, i) = -1 =>
                /\ StepAt(i + 1).action = [type |-> "skip", index |-> i]
                /\ StepAt(i + 1).sequence = StepAt(i).sequence
                /\ StepAt(i + 1).predecessors = StepAt(i).predecessors
                /\ \A k \in 0..Len(input) :
                        /\ \A n \in 1..Len(StepAt(k).sequence) :
                                StepAt(k).sequence[n] # i
                        /\ \A n \in 1..Len(StepAt(k).predecessors) :
                                StepAt(k).predecessors[n] # i
                        /\ At(StepAt(k).predecessors, i) = -1
                /\ \A n \in 1..Len(trace.result) : trace.result[n] # i

C17_Witness ==
    /\ pc = "traced"
    /\ Len(input) >= 4
    /\ At(input, 2) = -1
    /\ StepAt(3).action = [type |-> "skip", index |-> 2]
    /\ Len(StepAt(2).sequence) = 2
    /\ StepAt(4).action.type = "append"

\* The lower-bound position: the first position of sequence whose value is
\* not below target (defined when target is at most the tail's value).
LowerBound(sequence, indexes, target) ==
    Min({p \in 0..(Len(sequence) - 1) : At(indexes, At(sequence, p)) >= target})

EqualsLowerBound(i) ==
    LET sequence == StepAt(i).sequence
        currentValue == At(input, i)
    IN /\ currentValue # -1
       /\ sequence # <<>>
       /\ currentValue <= At(input, Last(sequence))
       /\ At(input, At(sequence, LowerBound(sequence, input, currentValue)))
            = currentValue

C19_NoEqualValueSkip ==
    (pc = "traced" /\ NoDuplicateValues(input)) =>
        \A i \in 0..(Len(input) - 1) :
            /\ StepAt(i + 1).action.type = "skip" =>
                    StepAt(i + 1).currentValue = -1
            /\ At(input, i) # -1 =>
                    StepAt(i + 1).action.type \in {"append", "replace"}
            /\ ~EqualsLowerBound(i)

C19_Witness ==
    /\ pc = "traced"
    /\ NoDuplicateValues(input)
    /\ Len(input) >= 4
    /\ \E i, j, k \in 1..Len(input) :
            /\ StepAt(i).action.type = "skip"
            /\ StepAt(j).action.type = "replace"
            /\ StepAt(j).action.position = 1
            /\ StepAt(k).action.type = "append"

OnlySentinels(indexes) == \A i \in 1..Len(indexes) : indexes[i] = -1

\* C20: the empty input gives exactly one step (Init) and an empty result; an
\* input of sentinels only gives an empty sequence in every snapshot, -1 in
\* every predecessors entry, Skip for every action but Init, and an empty
\* result.
C20_EmptyAndSentinelOnly ==
    pc = "traced" =>
        /\ input = <<>> =>
                /\ Len(trace.steps) = 1
                /\ StepAt(0).action = [type |-> "init"]
                /\ trace.result = <<>>
        /\ OnlySentinels(input) =>
                /\ \A k \in 0..Len(input) :
                        /\ StepAt(k).sequence = <<>>
                        /\ \A n \in 1..Len(StepAt(k).predecessors) :
                                StepAt(k).predecessors[n] = -1
                        /\ Len(StepAt(k).predecessors) = Len(input)
                        /\ k > 0 => StepAt(k).action =
                                        [type |-> "skip", index |-> k - 1]
                /\ StepAt(0).action = [type |-> "init"]
                /\ trace.result = <<>>

C20_Witness ==
    /\ pc = "traced"
    /\ Len(input) >= 2
    /\ OnlySentinels(input)
    /\ Len(trace.steps) = Len(input) + 1
    /\ trace.result = <<>>

\* The input values a list of indices resolves to.
ValuesAt(indexes, list) == [n \in 1..Len(list) |-> At(indexes, list[n])]

\* C21: for the input [2,1,3,0,4] the final result is a list of 3 indices
\* whose input values are [1,3,4].
C21_DefaultInputResult ==
    (pc = "traced" /\ input = defaultInput) =>
        /\ Len(trace.result) = 3
        /\ ValuesAt(input, trace.result) = <<1, 3, 4>>

C21_Witness ==
    /\ pc = "traced"
    /\ input = <<2, 1, 3, 0, 4>>
    /\ trace.input = input
    /\ trace.result = <<1, 2, 4>>
    /\ Last(trace.steps).sequence = <<3, 2, 4>>

\* What no hover-manager operation touches.
HoverFrame ==
    UNCHANGED <<input, trace, navigator, isPlaying, speed, playTimer, timers,
                isSequenceHovered, isPredecessorsHovered, navigatorVersion,
                mounted>>

\* C22: refreshHoverState() changes only chain-hover state: nothing when
\* hoveredChainInfo is none; otherwise, with hovered position p and current
\* snapshot S, it empties hoveredChainIndexes and sets hoveredChainInfo to
\* none when p < 0 or p >= S.sequence.length, else it overwrites
\* hoveredChainIndexes with the chain of S at p and leaves hoveredChainInfo.
C22_RefreshHoverState ==
    [][calls' = <<"refresh", "refreshHoverState">> =>
        /\ HoverFrame
        /\ IF hoveredChainInfo = None
           THEN UNCHANGED <<hoveredChainIndexes, hoveredChainInfo>>
           ELSE LET p == hoveredChainInfo[1].chainIndex
                IN IF p < 0 \/ p >= Len(Shown.sequence)
                   THEN /\ hoveredChainIndexes' = <<>>
                        /\ hoveredChainInfo' = None
                   ELSE /\ hoveredChainIndexes' =
                              chainUtilsBuildChain(At(Shown.sequence, p),
                                                   Shown.predecessors)
                        /\ UNCHANGED hoveredChainInfo]_vars

C22_Witness ==
    /\ pc = "hover"
    /\ calls = <<"refresh", "refreshHoverState">>
    /\ hoverAt = Some(1)
    /\ hoveredChainInfo = None
    /\ hoveredChainIndexes = <<>>
    /\ Len(Shown.sequence) = 1

\* C23: handleChainHover(indexes, p) stores exactly the given list as
\* hoveredChainIndexes and p as the hovered position, whatever the current
\* snapshot is; handleChainLeave() empties hoveredChainIndexes and sets
\* hoveredChainInfo to none from any state; neither moves the cursor, changes
\* playback state or notifies through navigatorVersion.
C23_ChainHoverVerbatim ==
    [][/\ calls'[1] = "handleChainHover" =>
            /\ hoveredChainIndexes' = args'[1].indexes
            /\ hoveredChainInfo' = Some([chainIndex |-> args'[1].chainIndex])
            /\ HoverFrame
            /\ Count(calls', "incrementVersion") = 0
       /\ calls'[1] = "handleChainLeave" =>
            /\ hoveredChainIndexes' = <<>>
            /\ hoveredChainInfo' = None
            /\ HoverFrame
            /\ Count(calls', "incrementVersion") = 0]_vars

C23_Witness ==
    /\ pc = "hover"
    /\ calls[1] = "handleChainHover"
    /\ args = Some([indexes |-> <<1, 0>>, chainIndex |-> HoverMaxLen])
    /\ hoveredChainIndexes = <<1, 0>>
    /\ hoveredChainInfo = Some([chainIndex |-> HoverMaxLen])
    /\ isPlaying /\ timers # {}
    /\ Cursor = 1

\* C24: updateSpeed(s) always stores s as the speed; when Stopped it installs
\* no timer and stays Stopped; when Playing it cancels the live timer and
\* installs a new one; hence whenever a timer is live its interval is the
\* stored speed.
C24_SpeedOfLiveTimer ==
    /\ [](\A t \in timers : t.interval = speed)
    /\ [][calls'[1] = "handleSpeedChange" =>
            /\ speed' = args'[1]
            /\ UNCHANGED navigator
            /\ IF isPlaying
               THEN /\ isPlaying'
                    /\ calls' = <<"handleSpeedChange", "start", "stop",
                                  "clearInterval", "setInterval">>
                    /\ timers' = {[id |-> playTimer', interval |-> args'[1]]}
               ELSE /\ Stopped([isPlaying |-> isPlaying', playTimer |-> playTimer',
                                timers |-> timers'])
                    /\ calls' = <<"handleSpeedChange">>]_vars

C24_Witness ==
    /\ pc = "view"
    /\ calls = <<"handleSpeedChange", "start", "stop", "clearInterval", "setInterval">>
    /\ args = Some(100)
    /\ speed = 100
    /\ isPlaying
    /\ timers = {[id |-> playTimer, interval |-> 100]}
    /\ Cursor > 0

\* C25: toggle() from Stopped yields Playing with one live timer and from
\* Playing yields Stopped with no live timer; two toggle() calls with no tick
\* between restore the play state; toggle() never moves the cursor or changes
\* the speed.
C25_Toggle ==
    /\ [](LET twice == toggle(toggle(View))
          IN /\ twice.isPlaying = isPlaying
             /\ Cardinality(twice.timers) = Cardinality(timers)
             /\ twice.navigator = navigator
             /\ twice.speed = speed)
    /\ [][calls'[1] = "handleTogglePlay" =>
            /\ isPlaying' = ~isPlaying
            /\ IF isPlaying
               THEN Stopped([isPlaying |-> isPlaying', playTimer |-> playTimer',
                             timers |-> timers'])
               ELSE /\ Cardinality(timers') = 1
                    /\ TimerIds(timers') = {playTimer'}
            /\ UNCHANGED <<navigator, speed>>]_vars

C25_Witness ==
    /\ pc = "view"
    /\ calls = <<"handleTogglePlay", "stop", "clearInterval">>
    /\ ~isPlaying
    /\ timers = {}
    /\ Cursor = 2
    /\ speed = 100

\* C26: handleIndexClick(i), for 0 <= i < input.length, stops playback and
\* then seeks within the one handler, with no tick between: afterwards the
\* state is Stopped with no live timer, currentStep is i + 1 and the current
\* snapshot's currentIndex is i.
C26_IndexClick ==
    [][calls'[1] = "handleIndexClick" =>
        LET i == args'[1]
        IN /\ i \in 0..(Len(input) - 1)
           /\ Stopped([isPlaying |-> isPlaying', playTimer |-> playTimer',
                       timers |-> timers'])
           /\ Cursor' = i + 1
           /\ getCurrentStep(navigator')[1].currentIndex = i
           /\ calls' = IF playTimer # 0
                       THEN <<"handleIndexClick", "stop", "clearInterval", "goTo",
                              "refreshHoverState", "incrementVersion">>
                       ELSE <<"handleIndexClick", "stop", "goTo",
                              "refreshHoverState", "incrementVersion">>]_vars

C26_Witness ==
    /\ pc = "view"
    /\ calls = <<"handleIndexClick", "stop", "clearInterval", "goTo",
                 "refreshHoverState", "incrementVersion">>
    /\ args = Some(3)
    /\ Cursor = 4
    /\ ~isPlaying /\ timers = {}

AreaHoverHandlers ==
    {"handleSequenceHover", "handleSequenceLeave", "handlePredecessorsHover",
     "handlePredecessorsLeave"}

\* Handlers that move the navigator (each refreshes the hover state) or
\* operate the playback controller, and the timer tick.
MoveAndPlaybackHandlers ==
    MovingHandlers \cup {"tick", "handleTogglePlay", "handleSpeedChange",
                         "onUnmounted"}

\* C30: handleSequenceHover/Leave and handlePredecessorsHover/Leave set only
\* their own boolean (true on hover, false on leave) and leave the cursor,
\* chain-hover state and playback state unchanged; no navigator move,
\* refreshHoverState call, playback operation or timer tick changes
\* isSequenceHovered or isPredecessorsHovered.
C30_AreaHoverToggles ==
    [][/\ calls'[1] \in AreaHoverHandlers =>
            /\ calls'[1] = "handleSequenceHover" =>
                    isSequenceHovered' /\ UNCHANGED isPredecessorsHovered
            /\ calls'[1] = "handleSequenceLeave" =>
                    ~isSequenceHovered' /\ UNCHANGED isPredecessorsHovered
            /\ calls'[1] = "handlePredecessorsHover" =>
                    isPredecessorsHovered' /\ UNCHANGED isSequenceHovered
            /\ calls'[1] = "handlePredecessorsLeave" =>
                    ~isPredecessorsHovered' /\ UNCHANGED isSequenceHovered
            /\ UNCHANGED <<input, trace, navigator, isPlaying, speed, playTimer,
                           timers, hoveredChainIndexes, hoveredChainInfo,
                           navigatorVersion>>
       /\ calls'[1] \in MoveAndPlaybackHandlers =>
            UNCHANGED <<isSequenceHovered, isPredecessorsHovered>>
       /\ refreshHoverState(View).isSequenceHovered = isSequenceHovered
       /\ refreshHoverState(View).isPredecessorsHovered = isPredecessorsHovered]_vars

C30_Witness ==
    /\ pc = "view"
    /\ calls = <<"handleSequenceLeave">>
    /\ ~isSequenceHovered
    /\ isPredecessorsHovered
    /\ isPlaying /\ timers # {}
    /\ hoveredChainInfo # None
    /\ Cursor > 0

\* The chains the chain view draws for snapshot k.
ChainsAt(k) ==
    chainUtilsBuildAllChains(StepAt(k).sequence, StepAt(k).predecessors)

\* Positions whose chain in snapshot k + 1 is new or differs from snapshot k.
ChangedChains(k) ==
    {q \in 1..Len(ChainsAt(k + 1)) :
        q > Len(ChainsAt(k)) \/ ChainsAt(k + 1)[q] # ChainsAt(k)[q]}

\* C29: between consecutive snapshots at most one sequence position has a
\* different chain: an Append adds one chain at the new last position and
\* leaves every existing chain, a Replace(p, i) changes only the chain at
\* position p, and a Skip changes no chain.
C29_OneChainChanges ==
    pc = "traced" =>
        \A k \in 0..(Len(input) - 1) :
            LET action == StepAt(k + 1).action
            IN /\ Cardinality(ChangedChains(k)) <= 1
               /\ Len(ChainsAt(k + 1)) >= Len(ChainsAt(k))
               /\ action.type = "append" =>
                    /\ Len(ChainsAt(k + 1)) = Len(ChainsAt(k)) + 1
                    /\ ChangedChains(k) = {Len(ChainsAt(k + 1))}
                    /\ Last(Last(ChainsAt(k + 1))) = action.index
               /\ action.type = "replace" =>
                    /\ Len(ChainsAt(k + 1)) = Len(ChainsAt(k))
                    /\ ChangedChains(k) = {action.position + 1}
                    /\ Last(ChainsAt(k + 1)[action.position + 1]) = action.index
               /\ action.type = "skip" => ChainsAt(k + 1) = ChainsAt(k)

C29_Witness ==
    /\ pc = "traced"
    /\ Len(input) >= 4
    /\ StepAt(4).action = [type |-> "replace", position |-> 1, index |-> 3]
    /\ Len(ChainsAt(3)) = 3
    /\ ChainsAt(4)[2] # ChainsAt(3)[2]
    /\ ChainsAt(4)[3] = ChainsAt(3)[3]

\* C27: when parsing the edited text fails (a non-numeric token, a value
\* below -1 or a fractional value), the parser returns a {success: false,
\* error} value, the input-change handler is not invoked, and the stored
\* input, trace, navigator cursor, playback state and hover state are all
\* unchanged.
C27_ParseFailureKeepsState ==
    [][(calls'[1] = "handleInput" /\ ~parseInput(args'[1]).success) =>
        /\ calls' = <<"handleInput">>
        /\ error' = Some(parseInput(args'[1]).error)
        /\ error'[1].kind \in {"invalid", "negative", "fractional"}
        /\ inputText' = args'[1]
        /\ UNCHANGED <<input, trace, navigator, isPlaying, speed, playTimer,
                       timers, hoveredChainIndexes, hoveredChainInfo,
                       isSequenceHovered, isPredecessorsHovered,
                       navigatorVersion>>
        /\ args'[1] = <<"a">> => error'[1] = [kind |-> "invalid", part |-> <<"a">>]
        /\ args'[1] = <<"-", "1", "1">> => error'[1].kind = "negative"
        /\ args'[1] = <<"1", ".", "1">> => error'[1].kind = "fractional"
        /\ args'[1] = <<"1", ",", "a">> => error'[1].part = <<"a">>]_vars

C27_Witness ==
    /\ pc = "edited"
    /\ calls = <<"handleInput">>
    /\ args = Some(<<"0", ".", "1">>)
    /\ inputText = <<"0", ".", "1">>
    /\ error = Some([kind |-> "fractional", part |-> <<"0", ".", "1">>])
    /\ input = defaultInput
    /\ Cursor = 3
    /\ isPlaying /\ timers # {}
    /\ hoveredChainInfo # None

\* C28: for every list of integers >= -1, deduplicateInput returns a list of
\* the same length in which every non-sentinel value occurs at most once, the
\* first occurrence of each value keeps its position and value, every later
\* occurrence is replaced by -1 and every -1 stays -1; applying it twice gives
\* what applying it once gives.
C28_Deduplicate ==
    /\ [](pc = "deduplicated" =>
            LET numbers == args[1]
            IN /\ Len(input) = Len(numbers)
               /\ NoDuplicateValues(input)
               /\ \A i \in 1..Len(numbers) :
                    input[i] =
                        IF numbers[i] # -1 /\ \A j \in 1..(i - 1) : numbers[j] # numbers[i]
                        THEN numbers[i]
                        ELSE -1)
    /\ [][(pc = "deduplicated" /\ pc' = "deduplicated") => input' = input]_vars

C28_Witness ==
    /\ pc = "deduplicated"
    /\ args = Some(<<1, -1, 1, 1>>)
    /\ input = <<1, -1, -1, -1>>

\* C31: in every snapshot of every trace (inputs with or without duplicates)
\* the values input[sequence[0]], input[sequence[1]], ... are strictly
\* increasing, and every sequence entry is a distinct index of an already
\* processed non-sentinel element.
C31_SequenceSorted ==
    pc = "traced" =>
        \A k \in 0..Len(input) :
            LET sequence == StepAt(k).sequence
            IN /\ \A n \in 1..(Len(sequence) - 1) :
                    At(input, sequence[n]) < At(input, sequence[n + 1])
               /\ \A n \in 1..Len(sequence) :
                    /\ sequence[n] \in 0..(k - 1)
                    /\ At(input, sequence[n]) # -1
               /\ \A n, m \in 1..Len(sequence) :
                    n # m => sequence[n] # sequence[m]

C31_Witness ==
    /\ pc = "traced"
    /\ ~NoDuplicateValues(input)
    /\ Len(input) = 5
    /\ Len(StepAt(5).sequence) = 3
    /\ StepAt(5).sequence[1] > StepAt(5).sequence[2]
    /\ \E k \in 1..5 : StepAt(k).action.type = "skip" /\ StepAt(k).currentValue # -1

\* The calls of findInsertPosition the trace engine makes: step i calls it
\* when input[i] is no sentinel, the sequence is not empty and input[i] is not
\* greater than the value at the last sequence entry.
SearchedAt(i) ==
    /\ At(input, i) # -1
    /\ StepAt(i).sequence # <<>>
    /\ At(input, i) <= At(input, Last(StepAt(i).sequence))

\* C32: whenever the trace engine calls findInsertPosition, the call ends and
\* returns the leftmost position p with input[sequence[p]] >= v, as a linear
\* scan finds it.
C32_LowerBound ==
    pc = "traced" =>
        \A i \in 0..(Len(input) - 1) :
            SearchedAt(i) =>
                LET sequence == StepAt(i).sequence
                    p == findInsertPosition(sequence, input, At(input, i))
                IN /\ p \in 0..(Len(sequence) - 1)
                   /\ At(input, At(sequence, p)) >= At(input, i)
                   /\ \A q \in 0..(p - 1) : At(input, At(sequence, q)) < At(input, i)
                   /\ p = LowerBound(sequence, input, At(input, i))

C32_Witness ==
    /\ pc = "traced"
    /\ Len(input) = 5
    /\ SearchedAt(4)
    /\ Len(StepAt(4).sequence) = 4
    /\ findInsertPosition(StepAt(4).sequence, input, At(input, 4)) = 2
    /\ At(input, At(StepAt(4).sequence, 2)) = At(input, 4)

\* C33: each recorded action matches the difference between its snapshot and
\* the previous one.  Append(i): the sequence is the previous one with i
\* appended and predecessors[i] is the previous last entry, or -1.
\* Replace(p, i): same length, different only at p, which holds i; input[i] is
\* strictly smaller than the replaced entry's value; predecessors[i] is
\* sequence[p - 1], or -1 when p = 0.  No other predecessors entry changes.
C33_ActionMatchesDifference ==
    pc = "traced" =>
        \A k \in 0..(Len(input) - 1) :
            LET before == StepAt(k)
                after == StepAt(k + 1)
                action == after.action
                OnlyEntryChanged(i) ==
                    \A j \in 0..(Len(input) - 1) :
                        j # i => At(after.predecessors, j) = At(before.predecessors, j)
            IN /\ action.type = "append" =>
                    /\ action.index = k
                    /\ after.sequence = Append(before.sequence, k)
                    /\ At(after.predecessors, k) =
                          IF before.sequence = <<>> THEN -1 ELSE Last(before.sequence)
                    /\ OnlyEntryChanged(k)
               /\ action.type = "replace" =>
                    /\ action.index = k
                    /\ action.position \in 0..(Len(before.sequence) - 1)
                    /\ Len(after.sequence) = Len(before.sequence)
                    /\ \A q \in 0..(Len(before.sequence) - 1) :
                            At(after.sequence, q) =
                                IF q = action.position THEN k
                                ELSE At(before.sequence, q)
                    /\ At(input, k) < At(input, At(before.sequence, action.position))
                    /\ At(after.predecessors, k) =
                          IF action.position = 0 THEN -1
                          ELSE At(after.sequence, action.position - 1)
                    /\ OnlyEntryChanged(k)
               /\ action.type \in {"append", "replace", "skip"}

C33_Witness ==
    /\ pc = "traced"
    /\ Len(input) = 5
    /\ StepAt(3).action = [type |-> "append", index |-> 2]
    /\ StepAt(5).action = [type |-> "replace", position |-> 2, index |-> 4]
    /\ At(StepAt(5).predecessors, 4) = At(StepAt(5).sequence, 1)
    /\ StepAt(4).sequence # StepAt(5).sequence

\* C35: in every snapshot of every trace each predecessors[i] is -1 or an
\* index strictly smaller than i, so the predecessor relation has no cycle and
\* the chain walks without a cycle guard end within input.length iterations.
C35_PredecessorsPointBack ==
    pc = "traced" =>
        \A k \in 0..Len(input) :
            /\ \A i \in 0..(Len(input) - 1) :
                    LET p == At(StepAt(k).predecessors, i)
                    IN p = -1 \/ (p >= 0 /\ p < i)
            /\ \A from \in 0..(Len(input) - 1) :
                    /\ Len(walkPredecessors(from, StepAt(k).predecessors))
                            <= Len(input)
                    /\ Len(walkPredecessors(from, StepAt(k).predecessors))
                            <= from + 1

C35_Witness ==
    /\ pc = "traced"
    /\ Len(input) = 5
    /\ Len(walkPredecessors(4, StepAt(5).predecessors)) = 5
    /\ trace.result = <<0, 1, 2, 3, 4>>

\* C36: predecessors entries are written once: in steps[k], predecessors[j]
\* is -1 for every j >= k; for every k > j, steps[k].predecessors[j] equals
\* steps[j + 1].predecessors[j]; hence the chain ending at an index is the
\* same in every snapshot taken after that index was processed.
C36_PredecessorsWriteOnce ==
    pc = "traced" =>
        \A j \in 0..(Len(input) - 1) :
            \A k \in 0..Len(input) :
                /\ k <= j => At(StepAt(k).predecessors, j) = -1
                /\ k > j =>
                    /\ At(StepAt(k).predecessors, j) =
                            At(StepAt(j + 1).predecessors, j)
                    /\ chainUtilsBuildChain(j, StepAt(k).predecessors) =
                            chainUtilsBuildChain(j, StepAt(j + 1).predecessors)

C36_Witness ==
    /\ pc = "traced"
    /\ Len(input) = 5
    /\ At(StepAt(3).predecessors, 2) = 1
    /\ StepAt(4).action = [type |-> "replace", position |-> 2, index |-> 3]
    /\ At(StepAt(5).predecessors, 2) = 1
    /\ chainUtilsBuildChain(2, StepAt(5).predecessors) = <<0, 1, 2>>

\* The playback state an action leaves.
PlaybackAfter ==
    [isPlaying |-> isPlaying', playTimer |-> playTimer', timers |-> timers']

StopThen(handler, move) ==
    IF playTimer # 0
    THEN <<handler, "stop", "clearInterval", move, "refreshHoverState",
           "incrementVersion">>
    ELSE <<handler, "stop", move, "refreshHoverState", "incrementVersion">>

\* C34: handleReset and handleGoToEnd stop playback before they move, from any
\* cursor position and play state: handleReset ends Stopped at step 0,
\* handleGoToEnd ends Stopped at step totalSteps - 1 with canGoForward false;
\* each move is followed by one hover refresh and one notification.
C34_ResetAndGoToEnd ==
    [][/\ calls'[1] = "handleReset" =>
            /\ Stopped(PlaybackAfter)
            /\ Cursor' = 0
            /\ getState(navigator').currentStep = 0
            /\ calls' = StopThen("handleReset", "reset")
            /\ navigatorVersion' = navigatorVersion + 1
       /\ calls'[1] = "handleGoToEnd" =>
            /\ Stopped(PlaybackAfter)
            /\ Cursor' = TotalSteps - 1
            /\ getState(navigator').currentStep = getState(navigator').totalSteps - 1
            /\ getState(navigator').totalSteps = getState(navigator).totalSteps
            /\ ~getState(navigator').canGoForward
            /\ calls' = StopThen("handleGoToEnd", "goTo")
            /\ navigatorVersion' = navigatorVersion + 1
      ]_vars

C34_Witness ==
    /\ pc = "view"
    /\ calls = <<"handleGoToEnd", "stop", "clearInterval", "goTo",
                 "refreshHoverState", "incrementVersion">>
    /\ Stopped(View)
    /\ TotalSteps >= 3
    /\ Cursor = TotalSteps - 1
    /\ returned # None

PlaybackOperations ==
    {start(View), stop(View), toggle(View), dispose(View)}
        \cup {updateSpeed(View, newSpeed) : newSpeed \in Speeds}

\* C37: after every playback-controller operation (start, stop, toggle,
\* updateSpeed, dispose), every timer tick and every handler, isPlaying is
\* true if and only if a playback timer is live.
C37_PlayingIffTimerLive ==
    /\ isPlaying <=> timers # {}
    /\ isPlaying <=> playTimer # 0
    /\ isPlaying => TimerIds(timers) = {playTimer}
    /\ \A s \in PlaybackOperations :
            /\ s.isPlaying <=> s.timers # {}
            /\ s.isPlaying => TimerIds(s.timers) = {s.playTimer}

C37_Witness ==
    /\ pc = "view"
    /\ calls = <<"handleSpeedChange", "start", "stop", "clearInterval",
                 "setInterval">>
    /\ isPlaying
    /\ Cardinality(timers) = 1
    /\ \A t \in timers : t.id = playTimer /\ t.interval = speed
    /\ speed # defaultSpeed
    /\ Cursor > 0

\* C38: after handleInputChange(newInput), from any prior state, playback is
\* Stopped with no live timer, the displayed trace is the trace of newInput,
\* the navigator is fresh at step 0 with newInput.length + 1 steps, the chain
\* hover is cleared and navigatorVersion has grown by exactly 1.
C38_InputChangeResets ==
    [][calls'[1] = "handleInputChange" =>
        LET newInput == args'[1]
        IN /\ Stopped(PlaybackAfter)
           /\ input' = newInput
           /\ trace' = traceLongestIncreasingSubsequence(newInput)
           /\ navigator' = createStepNavigator(trace')
           /\ Cursor' = 0
           /\ getState(navigator').currentStep = 0
           /\ getState(navigator').totalSteps = Len(newInput) + 1
           /\ getCurrentStep(navigator') = Some(At(trace'.steps, 0))
           /\ hoveredChainInfo' = None
           /\ hoveredChainIndexes' = <<>>
           /\ navigatorVersion' = navigatorVersion + 1]_vars

C38_Witness ==
    /\ pc = "view"
    /\ calls = <<"handleInputChange", "stop", "clearInterval", "input.set",
                 "trace", "createStepNavigator", "refreshHoverState",
                 "incrementVersion">>
    /\ args = Some(input)
    /\ input # defaultInput
    /\ Stopped(View)
    /\ Cursor = 0
    /\ TotalSteps = Len(input) + 1
    /\ hoveredChainInfo = None

ManualSteps == {"handleNext", "handlePrevious"}

\* C39: handleNext and handlePrevious do not stop playback: called while
\* Playing they leave the state Playing and the timer live, so manual steps
\* and ticks interleave.  Under every interleaving the cursor stays within
\* [0, totalSteps - 1], each manual step or tick moves it by at most one, each
\* manual step and each move is followed by a hover refresh and a
\* notification, and the first tick that finds the cursor at totalSteps - 1
\* stops playback.
C39_ManualStepsKeepPlaying ==
    /\ [](Cursor \in 0..(TotalSteps - 1))
    /\ [][calls'[1] \in ManualSteps =>
            /\ UNCHANGED <<isPlaying, playTimer, timers>>
            /\ calls' = <<calls'[1],
                          IF calls'[1] = "handleNext" THEN "next" ELSE "prev",
                          "refreshHoverState", "incrementVersion">>
            /\ navigatorVersion' = navigatorVersion + 1]_vars
    /\ [][calls'[1] \in ManualSteps \cup {"tick"} =>
            /\ Cursor' - Cursor \in {-1, 0, 1}
            /\ Cursor' # Cursor =>
                    /\ Len(calls') >= 2
                    /\ SubSeq(calls', Len(calls') - 1, Len(calls')) =
                            <<"refreshHoverState", "incrementVersion">>
                    /\ navigatorVersion' = navigatorVersion + 1]_vars
    /\ [][calls'[1] = "tick" =>
            /\ isPlaying
            /\ IF Cursor = TotalSteps - 1
               THEN Stopped(PlaybackAfter) /\ Cursor' = Cursor
               ELSE isPlaying' /\ Cursor' = Cursor + 1
                        /\ UNCHANGED <<playTimer, timers>>]_vars

C39_Witness ==
    /\ pc = "view"
    /\ calls = <<"handleNext", "next", "refreshHoverState", "incrementVersion">>
    /\ returned # None
    /\ isPlaying
    /\ timers # {}
    /\ Cursor = TotalSteps - 1
    /\ TotalSteps >= 3

\* C40: after any sequence of handleChainHover, handleChainLeave,
\* refreshHoverState, navigator moves and input changes, hoveredChainInfo
\* being none implies hoveredChainIndexes is empty; once a refresh has cleared
\* the hover because the position was out of range, hoveredChainIndexes stays
\* empty under every navigation and refresh until the next handleChainHover.
C40_ClearedHoverStaysEmpty ==
    /\ [](hoveredChainInfo = None => hoveredChainIndexes = <<>>)
    /\ [][(hoveredChainInfo = None /\ calls'[1] # "handleChainHover") =>
            (hoveredChainInfo' = None /\ hoveredChainIndexes' = <<>>)]_vars
    /\ [][(hoveredChainInfo # None /\ hoveredChainInfo' = None
                /\ calls'[1] # "handleChainLeave") =>
            /\ Count(calls', "refreshHoverState") = 1
            /\ hoverAt # None
            /\ hoverAt[1] >= Len(getCurrentStep(navigator')[1].sequence)
            /\ hoveredChainIndexes' = <<>>]_vars

C40_Witness ==
    /\ pc = "view"
    /\ hoverAt = Some(0)
    /\ hoveredChainInfo = None
    /\ hoveredChainIndexes = <<>>
    /\ calls = <<"tick", "next", "refreshHoverState", "incrementVersion">>
    /\ Len(Shown.sequence) >= 2
    /\ Cursor >= 3

====
